---- MODULE Spec2Model ----
(***************************************************************************)
(* Model of the configuration patch engine of bulk_repo_pr_creator.py:     *)
(* the YAML text-block editor, the predicate matcher, the structural       *)
(* navigators for YAML and JSON, the env upsert, the text replacement and  *)
(* the routing between them.                                               *)
(*                                                                         *)
(* A file's text is a sequence of symbols.  A symbol stands for one        *)
(* character (" ", "\n", ":", "-", "#", ...) or for an unbroken run of     *)
(* non-blank characters that no pattern of the model splits ("K", "role"). *)
(***************************************************************************)
EXTENDS Integers, Sequences, FiniteSets, TLC

VARIABLES
    content,    \* text of the target file
    ftype,      \* rule["type"]
    changes,    \* rule["changes"], the ordered operations of the rule
    runs,       \* number of times the rule has been applied so far
    before,     \* text of the file before the latest application
    modified,   \* what the latest application returned
    raised,     \* whether the latest application raised an exception
    trace,      \* what the latest application did (route, lines kept, ...)
    match_current,  \* the current value given to the predicate matcher
    match_pattern,  \* the expected pattern given to the predicate matcher
    matched,    \* <<result>> once the predicate matcher has returned
    rules,          \* the rule list given to apply_file_changes
    files,          \* the repository: for each file name <<text>>, or <<>> when missing
    rule_index,     \* position of the loop of apply_file_changes in the rule list
    changes_made,   \* changes_made of apply_file_changes
    modified_files, \* modified_files of apply_file_changes
    propagated,     \* whether an exception has left apply_file_changes
    returned,   \* whether apply_file_changes has returned
    dry_run,            \* dry_run of main and process_repository
    update_existing_pr, \* update_existing_pr of process_repository
    repos,              \* number of the repositories selected in main
    repo_index,         \* position of the loop of main in the repositories
    results,            \* the statuses main has collected so far
    exit_code,          \* <<code>> once main has exited
    pc,                 \* the step process_repository or main is about to take
    clone_exists,       \* whether the clone directory holds the repository
    existing_pr_url,    \* existing_pr_url of process_repository
    result,             \* result of process_repository
    log,                \* the steps of this repository, executed or only announced
    pr_return,  \* <<value>> once create_pull_request has returned
    block_name,     \* the key name the loop of apply_values_yaml_changes removes
    block_content,  \* content of apply_values_yaml_changes
    block_before,   \* content before the latest pass of the loop
    block_passes,   \* the passes of the loop made so far
    block_removed,  \* removed of the latest pass
    block_done      \* whether the loop has reached its break

ruleVars == <<content, ftype, changes, runs, before, modified, raised, trace>>

matchVars == <<match_current, match_pattern, matched>>

runVars ==
    <<rules, files, rule_index, changes_made, modified_files, propagated, returned>>

mainVars == <<dry_run, update_existing_pr, repos, repo_index, results, exit_code>>

repoVars == <<pc, clone_exists, existing_pr_url, result, log, pr_return>>

blockVars ==
    <<block_name, block_content, block_before, block_passes, block_removed,
      block_done>>

vars == <<content, ftype, changes, runs, before, modified, raised, trace,
          match_current, match_pattern, matched,
          rules, files, rule_index, changes_made, modified_files, propagated,
          returned,
          dry_run, update_existing_pr, repos, repo_index, results, exit_code,
          pc, clone_exists, existing_pr_url, result, log, pr_return,
          block_name, block_content, block_before, block_passes, block_removed,
          block_done>>

-----------------------------------------------------------------------------
(* Bounds of the model *)

MaxLines == 3       \* lines of a generated YAML text
MaxIndent == 1      \* deepest indentation of a generated line
MaxRuns == 2        \* applications of the same rule to the same file
MaxOps == 2         \* operations of a generated rule
MaxEnvLines == 2    \* lines of a generated env text

-----------------------------------------------------------------------------
(* Python string primitives on symbol sequences *)

SP == " "
NL == "\n"

\* str.isspace() of one symbol, as used by \s, strip() and lstrip()
IsSpace(c) == c \in {SP, NL}

RECURSIVE Concat(_, _)
\* sep.join(parts)
Concat(parts, sep) ==
    IF parts = <<>> THEN <<>>
    ELSE IF Len(parts) = 1 THEN parts[1]
    ELSE parts[1] \o sep \o Concat(Tail(parts), sep)

\* '\n'.join(lines)
Join(lines) == Concat(lines, <<NL>>)

RECURSIVE SplitAt(_, _, _, _)
SplitAt(s, i, cur, sep) ==
    IF i > Len(s) THEN <<cur>>
    ELSE IF s[i] = sep THEN <<cur>> \o SplitAt(s, i + 1, <<>>, sep)
    ELSE SplitAt(s, i + 1, Append(cur, s[i]), sep)

\* s.split(sep) for a one-character separator
SplitOn(s, sep) == SplitAt(s, 1, <<>>, sep)

\* content.split('\n')
Split(s) == SplitOn(s, NL)

\* content.endswith('\n')
EndsWithNL(s) == Len(s) > 0 /\ s[Len(s)] = NL

RECURSIVE SkipSpace(_, _)
\* position after the longest run of whitespace that starts at i (\s*)
SkipSpace(s, i) ==
    IF i <= Len(s) /\ IsSpace(s[i]) THEN SkipSpace(s, i + 1) ELSE i

\* line.lstrip()
LStrip(line) == SubSeq(line, SkipSpace(line, 1), Len(line))

RECURSIVE RStrip(_)
RStrip(line) ==
    IF line # <<>> /\ IsSpace(line[Len(line)])
    THEN RStrip(SubSeq(line, 1, Len(line) - 1)) ELSE line

\* line.strip()
Strip(line) == RStrip(LStrip(line))

\* len(line) - len(line.lstrip())
IndentOf(line) == Len(line) - Len(LStrip(line))

\* s.startswith(p) tested at position i
HasAt(s, i, p) ==
    /\ i + Len(p) - 1 <= Len(s)
    /\ \A k \in 1..Len(p) : s[i + k - 1] = p[k]

StartsWith(s, p) == HasAt(s, 1, p)

RECURSIVE Spaces(_)
\* ' ' * n
Spaces(n) == IF n = 0 THEN <<>> ELSE <<SP>> \o Spaces(n - 1)

-----------------------------------------------------------------------------
(* Values of parsed documents and of rule fields *)

\* Python None
NoneV == [t |-> "null"]

\* a str, an int, a dict (insertion-ordered pairs <<key, value>> with unique
\* keys) and a list
StrV(s) == [t |-> "str", s |-> s]
IntV(n) == [t |-> "int", n |-> n]
MapV(items) == [t |-> "map", items |-> items]
ListV(elems) == [t |-> "list", elems |-> elems]

EmptyMap == MapV(<<>>)

\* isinstance(v, dict), isinstance(v, list), isinstance(v, int)
IsMap(v) == v.t = "map"
IsList(v) == v.t = "list"
IsInt(v) == v.t = "int"

\* the keys of a dict, in insertion order
MapKeys(m) == [k \in 1..Len(m.items) |-> m.items[k][1]]

\* key in m
MapHas(m, key) == \E k \in 1..Len(m.items) : m.items[k][1] = key

\* m[key] for a key that m has
MapGet(m, key) ==
    m.items[CHOOSE k \in 1..Len(m.items) : m.items[k][1] = key][2]

\* m[key] = v
MapSet(m, key, v) ==
    IF MapHas(m, key)
    THEN MapV([k \in 1..Len(m.items) |->
                 IF m.items[k][1] = key THEN <<key, v>> ELSE m.items[k]])
    ELSE MapV(Append(m.items, <<key, v>>))

RECURSIVE DropAt(_, _)
\* del seq[i], for a 1-based index i
DropAt(seq, i) ==
    IF i = 1 THEN Tail(seq) ELSE <<seq[1]>> \o DropAt(Tail(seq), i - 1)

\* del m[key] for a key that m has
MapDel(m, key) ==
    MapV(DropAt(m.items, CHOOSE k \in 1..Len(m.items) : m.items[k][1] = key))

\* a falsy value, as tested by "or {}"
IsFalsy(v) ==
    \/ v = NoneV
    \/ IsMap(v) /\ v.items = <<>>
    \/ IsList(v) /\ v.elems = <<>>
    \/ IsInt(v) /\ v.n = 0

RECURSIVE PyEq(_, _)
\* a == b: dicts are equal whatever the order of their keys
PyEq(a, b) ==
    IF a.t # b.t THEN FALSE
    ELSE IF IsMap(a)
    THEN /\ Len(a.items) = Len(b.items)
         /\ \A k \in 1..Len(a.items) :
                /\ MapHas(b, a.items[k][1])
                /\ PyEq(a.items[k][2], MapGet(b, a.items[k][1]))
    ELSE IF IsList(a)
    THEN /\ Len(a.elems) = Len(b.elems)
         /\ \A k \in 1..Len(a.elems) : PyEq(a.elems[k], b.elems[k])
    ELSE a = b

\* sorted(mapping) succeeds: the keys are all str or all int
Sortable(m) == \A j, k \in 1..Len(m.items) : m.items[j][1].t = m.items[k][1].t

RECURSIVE SameDump(_, _)
\* yaml.dump(a, sort_keys=True) == yaml.dump(b, sort_keys=True): the items
\* of a dict are written in key order when the keys can be sorted and in
\* insertion order otherwise
SameDump(a, b) ==
    IF a.t # b.t THEN FALSE
    ELSE IF IsMap(a)
    THEN /\ Len(a.items) = Len(b.items)
         /\ IF Sortable(a) /\ Sortable(b)
            THEN \A k \in 1..Len(a.items) :
                    /\ MapHas(b, a.items[k][1])
                    /\ SameDump(a.items[k][2], MapGet(b, a.items[k][1]))
            ELSE \A k \in 1..Len(a.items) :
                    /\ a.items[k][1] = b.items[k][1]
                    /\ SameDump(a.items[k][2], b.items[k][2])
    ELSE IF IsList(a)
    THEN /\ Len(a.elems) = Len(b.elems)
         /\ \A k \in 1..Len(a.elems) : SameDump(a.elems[k], b.elems[k])
    ELSE a = b

-----------------------------------------------------------------------------
(* yaml.safe_load and yaml.dump on block-style YAML                         *)
(* (mappings, block sequences of scalars or mappings, plain scalars, {} and *)
(* [], comments); every other text is rejected by the loader of the model.  *)

\* the symbols that are runs of digits, and int(symbol)
DigitSyms == {"0", "1", "2", "3"}

IntOf(sym) == CASE sym = "0" -> 0 [] sym = "1" -> 1 [] sym = "2" -> 2 [] sym = "3" -> 3

SymOf(n) == CASE n = 0 -> "0" [] n = 1 -> "1" [] n = 2 -> "2" [] n = 3 -> "3"

\* a symbol that is a run of characters of a plain scalar
IsName(sym) == sym \notin {SP, NL, ":", "-", "#", "{}", "[]", ".", "[", "]", "="}

\* the value that a scalar symbol is resolved to
ScalarVal(sym) ==
    IF sym = "{}" THEN EmptyMap
    ELSE IF sym = "[]" THEN ListV(<<>>)
    ELSE IF sym = "null" THEN NoneV
    ELSE IF sym \in DigitSyms THEN IntV(IntOf(sym))
    ELSE StrV(sym)

RECURSIVE CutComment(_, _)
\* the line without its trailing " # comment", looking from position p on
CutComment(b, p) ==
    IF p > Len(b) THEN b
    ELSE IF b[p] = "#" /\ b[p - 1] = SP THEN SubSeq(b, 1, p - 1)
    ELSE CutComment(b, p + 1)

\* the token of one line: its indentation and what it holds
Tok(line) ==
    LET b == RStrip(CutComment(LStrip(line), 2))
        t(kind, key, val) ==
            [indent |-> IndentOf(line), kind |-> kind, key |-> key, val |-> val]
    IN  IF b = <<>> \/ b[1] = "#" THEN t("skip", "", "")
        ELSE IF Len(b) = 2 /\ IsName(b[1]) /\ b[2] = ":"
        THEN t("k", b[1], "")
        ELSE IF /\ Len(b) = 4 /\ IsName(b[1]) /\ b[2] = ":" /\ b[3] = SP
                /\ (IsName(b[4]) \/ b[4] \in {"{}", "[]"})
        THEN t("kv", b[1], b[4])
        ELSE IF /\ Len(b) = 3 /\ b[1] = "-" /\ b[2] = SP
                /\ (IsName(b[3]) \/ b[3] \in {"{}", "[]"})
        THEN t("item", "", b[3])
        ELSE IF /\ Len(b) = 6 /\ b[1] = "-" /\ b[2] = SP /\ IsName(b[3])
                /\ b[4] = ":" /\ b[5] = SP
                /\ (IsName(b[6]) \/ b[6] \in {"{}", "[]"})
        THEN t("itemkv", b[3], b[6])
        ELSE IF Len(b) = 1 /\ b[1] \in {"{}", "[]"}
        THEN t("flow", "", b[1])
        ELSE t("bad", "", "")

RECURSIVE Tokens(_)
\* the tokens of the lines that are neither blank nor comments
Tokens(lines) ==
    IF lines = <<>> THEN <<>>
    ELSE IF Tok(lines[1]).kind = "skip" THEN Tokens(Tail(lines))
    ELSE <<Tok(lines[1])>> \o Tokens(Tail(lines))

ParseFail == [ok |-> FALSE, val |-> NoneV, next |-> 0]

RECURSIVE ParseNode(_, _)
RECURSIVE ParseMapEntries(_, _, _, _)
RECURSIVE ParseSeqItems(_, _, _, _)

\* the node that starts at token i, at the indentation of that token
ParseNode(ts, i) ==
    IF ts[i].kind \in {"item", "itemkv"}
    THEN ParseSeqItems(ts, i, ts[i].indent, <<>>)
    ELSE ParseMapEntries(ts, i, ts[i].indent, EmptyMap)

\* the entries of the block mapping at indentation ind, from token i on
ParseMapEntries(ts, i, ind, acc) ==
    IF i > Len(ts) \/ ts[i].indent < ind
    THEN [ok |-> TRUE, val |-> acc, next |-> i]
    ELSE IF ts[i].indent > ind \/ ts[i].kind \notin {"k", "kv"} THEN ParseFail
    ELSE IF ts[i].kind = "kv"
    THEN ParseMapEntries(ts, i + 1, ind,
                         MapSet(acc, ScalarVal(ts[i].key), ScalarVal(ts[i].val)))
    ELSE LET v == IF i + 1 > Len(ts)
                  THEN [ok |-> TRUE, val |-> NoneV, next |-> i + 1]
                  ELSE IF ts[i + 1].indent > ind THEN ParseNode(ts, i + 1)
                  ELSE IF /\ ts[i + 1].indent = ind
                          /\ ts[i + 1].kind \in {"item", "itemkv"}
                  THEN ParseSeqItems(ts, i + 1, ind, <<>>)
                  ELSE [ok |-> TRUE, val |-> NoneV, next |-> i + 1]
         IN  IF ~v.ok THEN ParseFail
             ELSE ParseMapEntries(ts, v.next, ind,
                                  MapSet(acc, ScalarVal(ts[i].key), v.val))

\* the items of the block sequence at indentation ind, from token i on
ParseSeqItems(ts, i, ind, acc) ==
    IF \/ i > Len(ts)
       \/ ts[i].indent < ind
       \/ ts[i].indent = ind /\ ts[i].kind \notin {"item", "itemkv"}
    THEN [ok |-> TRUE, val |-> ListV(acc), next |-> i]
    ELSE IF ts[i].indent > ind THEN ParseFail
    ELSE IF ts[i].kind = "item"
    THEN ParseSeqItems(ts, i + 1, ind, Append(acc, ScalarVal(ts[i].val)))
    ELSE LET m == ParseMapEntries(ts, i + 1, ind + 2,
                      MapSet(EmptyMap, ScalarVal(ts[i].key), ScalarVal(ts[i].val)))
         IN  IF ~m.ok THEN ParseFail
             ELSE ParseSeqItems(ts, m.next, ind, Append(acc, m.val))

\* yaml.safe_load(text): ok is false when the loader raises
safe_load(text) ==
    LET ts == Tokens(Split(text))
    IN  IF \E k \in 1..Len(ts) : ts[k].kind = "bad" THEN ParseFail
        ELSE IF ts = <<>> THEN [ok |-> TRUE, val |-> NoneV, next |-> 1]
        ELSE IF Len(ts) = 1 /\ ts[1].kind = "flow"
        THEN [ok |-> TRUE, val |-> ScalarVal(ts[1].val), next |-> 2]
        ELSE LET r == ParseNode(ts, 1)
             IN  IF r.ok /\ r.next > Len(ts) THEN r ELSE ParseFail

\* the symbol written for a scalar or an empty collection
ScalarSym(v) ==
    IF v = NoneV THEN "null"
    ELSE IF IsInt(v) THEN SymOf(v.n)
    ELSE IF IsMap(v) THEN "{}"
    ELSE IF IsList(v) THEN "[]"
    ELSE v.s

\* the value is written on the line of its key or of its dash
IsInline(v) ==
    \/ v.t \in {"null", "int", "str"}
    \/ IsMap(v) /\ v.items = <<>>
    \/ IsList(v) /\ v.elems = <<>>

RECURSIVE DumpLines(_, _)
RECURSIVE DumpItems(_, _, _)
RECURSIVE DumpElems(_, _, _)

\* the lines of the entries k.. of a non-empty dict at indentation ind
DumpItems(m, k, ind) ==
    IF k > Len(m.items) THEN <<>>
    ELSE LET key == ScalarSym(m.items[k][1])
             v == m.items[k][2]
         IN  (IF IsInline(v)
              THEN <<Spaces(ind) \o <<key, ":", SP, ScalarSym(v)>>>>
              ELSE <<Spaces(ind) \o <<key, ":">>>>
                   \o DumpLines(v, IF IsList(v) THEN ind ELSE ind + 2))
             \o DumpItems(m, k + 1, ind)

\* the lines of the elements k.. of a non-empty list at indentation ind
DumpElems(l, k, ind) ==
    IF k > Len(l.elems) THEN <<>>
    ELSE LET v == l.elems[k]
             body == DumpLines(v, ind + 2)
         IN  (IF IsInline(v) THEN <<Spaces(ind) \o <<"-", SP, ScalarSym(v)>>>>
              ELSE <<Spaces(ind) \o <<"-", SP>> \o LStrip(body[1])>> \o Tail(body))
             \o DumpElems(l, k + 1, ind)

\* the block-style lines of a non-empty dict or list at indentation ind
DumpLines(v, ind) ==
    IF IsMap(v) THEN DumpItems(v, 1, ind) ELSE DumpElems(v, 1, ind)

\* the text that dumping the document writes (block style, keys in
\* insertion order): yaml.dump(data, f, default_flow_style=False,
\* sort_keys=False), the writer used when ruamel.yaml cannot be imported
dump(v) ==
    IF IsInline(v) THEN <<ScalarSym(v), NL>>
    ELSE Join(DumpLines(v, 0)) \o <<NL>>

-----------------------------------------------------------------------------
(* Predicate Matcher *)

\* dumping both values with sorted keys, loading them back and comparing
\* the dumps again
_yaml_values_equal(a, b) == SameDump(a, b)

\* item.get("key") == pattern_item.get("key")
SameKeyField(item, pattern_item) ==
    IF MapHas(item, StrV("key"))
    THEN PyEq(MapGet(item, StrV("key")), MapGet(pattern_item, StrV("key")))
    ELSE PyEq(NoneV, MapGet(pattern_item, StrV("key")))

_yaml_value_contains(current_val, expected_pattern) ==
    IF /\ IsList(expected_pattern)
       /\ Len(expected_pattern.elems) = 1
       /\ IsMap(expected_pattern.elems[1])
       /\ MapHas(expected_pattern.elems[1], StrV("key"))
       /\ IsList(current_val)
    THEN \E k \in 1..Len(current_val.elems) :
            /\ IsMap(current_val.elems[k])
            /\ SameKeyField(current_val.elems[k], expected_pattern.elems[1])
    ELSE IF /\ IsMap(expected_pattern)
            /\ MapHas(expected_pattern, StrV("nodeAffinity"))
            /\ IsMap(current_val)
    THEN MapHas(current_val, StrV("nodeAffinity"))
    ELSE _yaml_values_equal(current_val, expected_pattern)

-----------------------------------------------------------------------------
(* Text-Block Editor: delete_yaml_key_preserve_formatting *)

\* key_pattern = rf'^\s*{re.escape(key_name)}\s*:' tried at position p
KeyPatternAt(s, p, key_name) ==
    LET q == SkipSpace(s, p)
        r == SkipSpace(s, q + Len(key_name))
    IN  /\ HasAt(s, q, key_name)
        /\ r <= Len(s)
        /\ s[r] = ":"

\* positions where ^ matches under re.MULTILINE
LineStarts(s) == {1} \cup {p \in 2..(Len(s) + 1) : s[p - 1] = NL}

\* re.search(key_pattern, content, re.MULTILINE)
KeyPatternFound(s, key_name) ==
    \E p \in LineStarts(s) : KeyPatternAt(s, p, key_name)

\* re.match(rf'^(\s*){re.escape(key_name)}\s*:(.*)$', line):
\* whether it matches, len(group(1)) and group(2)
KeyMatch(line, key_name) ==
    LET q == SkipSpace(line, 1)
        r == SkipSpace(line, q + Len(key_name))
        m == /\ HasAt(line, q, key_name)
             /\ r <= Len(line)
             /\ line[r] = ":"
    IN  [m |-> m,
         indent |-> q - 1,
         rest |-> IF m THEN SubSeq(line, r + 1, Len(line)) ELSE <<>>]

RECURSIVE SkipItem(_, _, _)
\* the loop over the nested content of one list item; the index it stops at
SkipItem(lines, i, item_indent) ==
    IF i > Len(lines) THEN i
    ELSE IF Strip(lines[i]) = <<>> THEN SkipItem(lines, i + 1, item_indent)
    ELSE IF IndentOf(lines[i]) <= item_indent THEN i
    ELSE SkipItem(lines, i + 1, item_indent)

RECURSIVE SkipBlock_StrictDedent(_, _, _)
\* SkipBlock with the block ending only at a line indented less than the
\* key, so that a sibling key at the key's indentation is consumed
SkipBlock_StrictDedent(lines, i, indent) ==
    IF i > Len(lines) THEN i
    ELSE IF Strip(lines[i]) = <<>> THEN SkipBlock_StrictDedent(lines, i + 1, indent)
    ELSE IF IndentOf(lines[i]) = indent /\ StartsWith(LStrip(lines[i]), <<"-">>)
         THEN SkipBlock_StrictDedent(lines, SkipItem(lines, i + 1, IndentOf(lines[i])),
                                     indent)
    ELSE IF IndentOf(lines[i]) < indent THEN i
    ELSE SkipBlock_StrictDedent(lines, i + 1, indent)

RECURSIVE SkipBlock(_, _, _)
\* the loop over the value block of a key at indentation indent; the index
\* of the first line that is not consumed
SkipBlock(lines, i, indent) ==
    IF i > Len(lines) THEN i
    ELSE IF Strip(lines[i]) = <<>> THEN SkipBlock(lines, i + 1, indent)
    ELSE IF IndentOf(lines[i]) = indent /\ StartsWith(LStrip(lines[i]), <<"-">>)
         THEN SkipBlock(lines, SkipItem(lines, i + 1, IndentOf(lines[i])), indent)
    ELSE IF IndentOf(lines[i]) <= indent THEN i
    ELSE SkipBlock(lines, i + 1, indent)

\* BlockEnd with a comment after the colon taken for an inline value
BlockEnd_CommentInline(lines, i, key_name) ==
    IF Strip(KeyMatch(lines[i], key_name).rest) # <<>>
    THEN i + 1
    ELSE SkipBlock(lines, i + 1, KeyMatch(lines[i], key_name).indent)

\* the index after the block that the key line at index i starts
BlockEnd(lines, i, key_name) ==
    LET km == KeyMatch(lines[i], key_name)
        rest_of_line == Strip(km.rest)
    IN  IF rest_of_line # <<>> /\ ~StartsWith(rest_of_line, <<"#">>)
        THEN i + 1
        ELSE SkipBlock(lines, i + 1, km.indent)

\* the outer loop stopping at the first key line: its block is deleted and
\* every line after the block is kept
ScanLines_FirstOnly(lines, i, key_name) ==
    LET hits == { j \in i..Len(lines) : KeyMatch(lines[j], key_name).m }
    IN  IF hits = {}
        THEN [kept |-> [k \in 1..(Len(lines) - i + 1) |-> i + k - 1], occ |-> <<>>]
        ELSE LET at == CHOOSE j \in hits : \A h \in hits : j <= h
                 e == BlockEnd(lines, at, key_name)
             IN  [kept |-> [k \in 1..(at - i) |-> i + k - 1]
                           \o [k \in 1..(Len(lines) - e + 1) |-> e + k - 1],
                  occ |-> <<[at |-> at,
                             indent |-> KeyMatch(lines[at], key_name).indent,
                             end |-> e]>>]

RECURSIVE ScanLines(_, _, _)
\* the outer loop from index i on: the indices appended to result_lines and
\* the blocks deleted (key line, indentation, index after the block)
ScanLines(lines, i, key_name) ==
    IF i > Len(lines) THEN [kept |-> <<>>, occ |-> <<>>]
    ELSE IF KeyMatch(lines[i], key_name).m
         THEN LET e == BlockEnd(lines, i, key_name)
                  r == ScanLines(lines, e, key_name)
              IN  [kept |-> r.kept,
                   occ |-> <<[at |-> i,
                              indent |-> KeyMatch(lines[i], key_name).indent,
                              end |-> e]>> \o r.occ]
         ELSE LET r == ScanLines(lines, i + 1, key_name)
              IN  [kept |-> <<i>> \o r.kept, occ |-> r.occ]

\* what the final write puts into the file
WriteBack(text, result_lines) ==
    Join(result_lines) \o (IF EndsWithNL(text) THEN <<NL>> ELSE <<>>)

\* the str that a one-name path is: a name is one symbol, '' has none
NameOf(path) == IF path = <<>> THEN "" ELSE path[1]

\* the check on what yaml.safe_load(content) gave: it loaded, "data or {}" is
\* a dict that has the key, and the value of the key does not contain the
\* expected pattern
LoadedMismatch(loaded, key, expected_value) ==
    /\ loaded.ok
    /\ LET data == IF IsFalsy(loaded.val) THEN EmptyMap ELSE loaded.val
       IN  /\ IsMap(data)
           /\ MapHas(data, key)
           /\ ~_yaml_value_contains(MapGet(data, key), expected_value)

\* The value check made when expected_value is given returns False: the text
\* loads, the loaded document is a dict that has key_name and its value does
\* not contain the expected pattern.  Whatever the check raises is caught
\* and the deletion goes on.
ValueCheckFails(text, key_name, expected_value) ==
    /\ expected_value # NoneV
    /\ LoadedMismatch(safe_load(text), StrV(NameOf(key_name)), expected_value)

\* the function on the lines of the text and on what the scan of the lines
\* gives
DeleteWith(text, key_name, expected_value, lines, scan) ==
    LET result_lines == [k \in 1..Len(scan.kept) |-> lines[scan.kept[k]]]
        skipped == [ret |-> FALSE, content |-> text, key |-> key_name,
                    expected |-> expected_value, text |-> text,
                    lines |-> lines, kept |-> [k \in 1..Len(lines) |-> k],
                    occ |-> <<>>]
    IN  IF ~KeyPatternFound(text, key_name) THEN skipped
        ELSE IF ValueCheckFails(text, key_name, expected_value) THEN skipped
        ELSE IF scan.occ # <<>>
        THEN [ret |-> TRUE, content |-> WriteBack(text, result_lines),
              key |-> key_name, expected |-> expected_value, text |-> text,
              lines |-> lines, kept |-> scan.kept, occ |-> scan.occ]
        ELSE skipped

\* The whole function on a file holding text: the value returned, the text
\* of the file afterwards and what the scan did.
delete_yaml_key_preserve_formatting(text, key_name, expected_value) ==
    DeleteWith(text, key_name, expected_value,
               Split(text), ScanLines(Split(text), 1, key_name))

-----------------------------------------------------------------------------
(* apply_yaml_changes: routing and the text route *)

\* change.get(field, default)
Get(change, field, default) ==
    IF field \in DOMAIN change THEN change[field] ELSE default

\* c in path
Contains(path, c) == \E k \in 1..Len(path) : path[k] = c

RECURSIVE RouteScan_DotsOnly(_, _)
\* RouteScan with only the '.' of a path taken for a nested path, so that an
\* indexed delete counts as a top-level one
RouteScan_DotsOnly(chs, i) ==
    IF i > Len(chs)
    THEN [only_top_level_deletes |-> TRUE, has_updates |-> FALSE]
    ELSE IF Get(chs[i], "action", "") = "delete_key"
    THEN IF Contains(Get(chs[i], "path", <<>>), ".")
         THEN [only_top_level_deletes |-> FALSE, has_updates |-> FALSE]
         ELSE RouteScan_DotsOnly(chs, i + 1)
    ELSE IF Get(chs[i], "action", "") = "update_key"
    THEN [only_top_level_deletes |-> FALSE, has_updates |-> TRUE]
    ELSE RouteScan_DotsOnly(chs, i + 1)

RECURSIVE RouteScan(_, _)
\* the loop that sets only_top_level_deletes and has_updates, from change i on
RouteScan(chs, i) ==
    IF i > Len(chs)
    THEN [only_top_level_deletes |-> TRUE, has_updates |-> FALSE]
    ELSE IF Get(chs[i], "action", "") = "delete_key"
    THEN IF \/ Contains(Get(chs[i], "path", <<>>), ".")
            \/ Contains(Get(chs[i], "path", <<>>), "[")
         THEN [only_top_level_deletes |-> FALSE, has_updates |-> FALSE]
         ELSE RouteScan(chs, i + 1)
    ELSE IF Get(chs[i], "action", "") = "update_key"
    THEN [only_top_level_deletes |-> FALSE, has_updates |-> TRUE]
    ELSE RouteScan(chs, i + 1)

\* the condition of the branch that uses the text-based deletion
UsesTextRoute(chs) ==
    RouteScan(chs, 1).only_top_level_deletes /\ ~RouteScan(chs, 1).has_updates

RECURSIVE TextRoute(_, _, _)
\* the loop goes on after the delete d of change i
TextRouteFrom(d, chs, i) ==
    LET r == TextRoute(d.content, chs, i + 1)
    IN  [content |-> r.content,
         any_deleted |-> d.ret \/ r.any_deleted,
         calls |-> <<d>> \o r.calls]

\* the loop of the text route from change i on, on a file holding text
TextRoute(text, chs, i) ==
    IF i > Len(chs) THEN [content |-> text, any_deleted |-> FALSE, calls |-> <<>>]
    ELSE IF Get(chs[i], "action", "") = "delete_key"
    THEN TextRouteFrom(delete_yaml_key_preserve_formatting(
                           text, Get(chs[i], "path", <<>>),
                           Get(chs[i], "value", NoneV)),
                       chs, i)
    ELSE TextRoute(text, chs, i + 1)

-----------------------------------------------------------------------------
(* apply_yaml_changes: the structured route *)

RECURSIVE ReSplit(_, _, _)
\* re.split(r'\[(\d+)\]', path): text parts alternating with captured digits
ReSplit(path, i, cur) ==
    IF i > Len(path) THEN <<cur>>
    ELSE IF /\ path[i] = "[" /\ i + 2 <= Len(path)
            /\ path[i + 1] \in DigitSyms /\ path[i + 2] = "]"
    THEN <<cur, <<path[i + 1]>>>> \o ReSplit(path, i + 3, <<>>)
    ELSE ReSplit(path, i + 1, Append(cur, path[i]))

RECURSIVE SegKeys(_)
\* the str keys of the segments that part.split('.') gives
SegKeys(segs) ==
    IF segs = <<>> THEN <<>>
    ELSE <<StrV(NameOf(segs[1]))>> \o SegKeys(Tail(segs))

RECURSIVE PartKeys(_, _)
\* the loop over enumerate(parts), from the part of 0-based index i on
PartKeys(parts, i) ==
    IF parts = <<>> THEN <<>>
    ELSE (IF i % 2 = 0 THEN SegKeys(SplitOn(parts[1], "."))
          ELSE <<IntV(IntOf(parts[1][1]))>>)
         \o PartKeys(Tail(parts), i + 1)

\* "if k": the empty str and the int 0 are false
Truthy(k) == k # StrV("") /\ k # IntV(0)

RECURSIVE FilterTruthy(_)
\* keys = [k for k in keys if k]
FilterTruthy(keys) ==
    IF keys = <<>> THEN <<>>
    ELSE (IF Truthy(keys[1]) THEN <<keys[1]>> ELSE <<>>) \o FilterTruthy(Tail(keys))

\* the keys that the YAML route navigates for a path
YamlKeys(path) == FilterTruthy(PartKeys(ReSplit(path, 1, <<>>), 0))

\* the list with the element of 0-based index n replaced
ListSet(l, n, v) ==
    ListV([k \in 1..Len(l.elems) |-> IF k = n + 1 THEN v ELSE l.elems[k]])

RECURSIVE YamlUpdateAt(_, _, _)
\* update_key from the container cur on, along the non-empty keys: the
\* container afterwards, and st = "ok" when the final step was reached,
\* "stop" when the navigation broke off, "raise" on an IndexError
YamlUpdateAt(cur, keys, value) ==
    LET key == keys[1]
    IN  IF Len(keys) = 1
        THEN IF IsMap(cur) THEN [st |-> "ok", val |-> MapSet(cur, key, value)]
             ELSE IF IsList(cur) /\ IsInt(key)
             THEN IF key.n < Len(cur.elems)
                  THEN [st |-> "ok", val |-> ListSet(cur, key.n, value)]
                  ELSE [st |-> "ok", val |-> ListV(Append(cur.elems, value))]
             ELSE [st |-> "ok", val |-> cur]
        ELSE IF IsMap(cur)
        THEN LET child == IF MapHas(cur, key) THEN MapGet(cur, key) ELSE EmptyMap
                 r == YamlUpdateAt(child, Tail(keys), value)
             IN  [st |-> r.st, val |-> MapSet(cur, key, r.val)]
        ELSE IF IsList(cur) /\ IsInt(key)
        THEN LET grown == IF key.n >= Len(cur.elems)
                          THEN ListV(Append(cur.elems, EmptyMap)) ELSE cur
             IN  IF key.n >= Len(grown.elems) THEN [st |-> "raise", val |-> grown]
                 ELSE LET r == YamlUpdateAt(grown.elems[key.n + 1], Tail(keys), value)
                      IN  [st |-> r.st, val |-> ListSet(grown, key.n, r.val)]
        ELSE [st |-> "stop", val |-> cur]

RECURSIVE YamlDeleteAt(_, _, _)
\* delete_key from the container cur on, along the non-empty keys: the
\* container afterwards
YamlDeleteAt(cur, keys, expected_value) ==
    LET key == keys[1]
    IN  IF Len(keys) = 1
        THEN IF IsMap(cur) /\ MapHas(cur, key)
             THEN IF expected_value # NoneV
                  THEN IF _yaml_value_contains(MapGet(cur, key), expected_value)
                       THEN MapDel(cur, key) ELSE cur
                  ELSE MapDel(cur, key)
             ELSE IF IsList(cur) /\ IsInt(key) /\ key.n < Len(cur.elems)
             THEN IF expected_value # NoneV
                  THEN IF _yaml_value_contains(cur.elems[key.n + 1], expected_value)
                       THEN ListV(DropAt(cur.elems, key.n + 1)) ELSE cur
                  ELSE ListV(DropAt(cur.elems, key.n + 1))
             ELSE cur
        ELSE IF IsMap(cur)
        THEN IF ~MapHas(cur, key) THEN cur
             ELSE MapSet(cur, key,
                         YamlDeleteAt(MapGet(cur, key), Tail(keys), expected_value))
        ELSE IF IsList(cur) /\ IsInt(key)
        THEN IF key.n >= Len(cur.elems) THEN cur
             ELSE ListSet(cur, key.n,
                          YamlDeleteAt(cur.elems[key.n + 1], Tail(keys), expected_value))
        ELSE cur

\* one pass of the loop over the changes on the loaded data: the data
\* afterwards and what the operation did; keys[-1] of an empty key list
\* raises IndexError
YamlChange(data, change) ==
    LET path == Get(change, "path", <<>>)
        keys == YamlKeys(path)
        value == Get(change, "value", NoneV)
    IN  IF Get(change, "action", "") \notin {"update_key", "delete_key"} \/ path = <<>>
        THEN [st |-> "skip", val |-> data, keys |-> <<>>]
        ELSE IF keys = <<>> THEN [st |-> "raise", val |-> data, keys |-> keys]
        ELSE IF change.action = "update_key"
        THEN [st |-> YamlUpdateAt(data, keys, value).st,
              val |-> YamlUpdateAt(data, keys, value).val, keys |-> keys]
        ELSE [st |-> "ok", val |-> YamlDeleteAt(data, keys, value), keys |-> keys]

RECURSIVE YamlChanges(_, _, _)
\* the loop goes on after the pass c of change i, unless the pass raised
YamlChangesFrom(c, chs, i) ==
    IF c.st = "raise"
    THEN [raised |-> TRUE, data |-> c.val,
          steps |-> <<[st |-> c.st, keys |-> c.keys, data |-> c.val]>>]
    ELSE LET r == YamlChanges(c.val, chs, i + 1)
         IN  [raised |-> r.raised, data |-> r.data,
              steps |-> <<[st |-> c.st, keys |-> c.keys, data |-> c.val]>>
                        \o r.steps]

\* the loop over the changes from change i on; it ends at the first raise
YamlChanges(data, chs, i) ==
    IF i > Len(chs) THEN [raised |-> FALSE, data |-> data, steps |-> <<>>]
    ELSE YamlChangesFrom(YamlChange(data, chs[i]), chs, i)

\* the comparison with original_data and the write, after the loop r over the
\* changes on the loaded data
StructuredWrite(text, loaded, data, r) ==
    LET t(written) == [route |-> "structural", calls |-> <<>>, loaded |-> loaded.ok,
                       data |-> data, steps |-> IF loaded.ok THEN r.steps ELSE <<>>,
                       written |-> written]
    IN  IF ~loaded.ok
        THEN [ret |-> FALSE, content |-> text, raised |-> FALSE, trace |-> t(FALSE)]
        ELSE IF r.raised
        THEN [ret |-> FALSE, content |-> text, raised |-> TRUE, trace |-> t(FALSE)]
        ELSE IF ~SameDump(r.data, data)
        THEN [ret |-> TRUE, content |-> dump(r.data), raised |-> FALSE,
              trace |-> t(TRUE)]
        ELSE [ret |-> FALSE, content |-> text, raised |-> FALSE, trace |-> t(FALSE)]

\* the structured route on "yaml.safe_load(f) or {}"
StructuredOn(text, chs, loaded, data) ==
    StructuredWrite(text, loaded, data, YamlChanges(data, chs, 1))

\* the structured route on what yaml.safe_load gave
StructuredLoaded(text, chs, loaded) ==
    StructuredOn(text, chs, loaded,
                 IF IsFalsy(loaded.val) THEN EmptyMap ELSE loaded.val)

\* the structured route on a file holding text
StructuredRoute(text, chs) == StructuredLoaded(text, chs, safe_load(text))

\* what the text route returns after its loop r
TextRouteResult(r) ==
    [ret |-> r.any_deleted, content |-> r.content, raised |-> FALSE,
     trace |-> [route |-> "text", calls |-> r.calls]]

\* The whole function on an existing file holding text: the value returned
\* (when nothing is raised), the text afterwards, whether it raised.
apply_yaml_changes(text, chs) ==
    IF UsesTextRoute(chs)
    THEN TextRouteResult(TextRoute(text, chs, 1))
    ELSE StructuredRoute(text, chs)

-----------------------------------------------------------------------------
(* apply_text_replacements *)

RECURSIVE LiteralSub(_, _, _, _)
\* re.sub(pattern, replacement, content) from position i on, for a pattern
\* that is an escaped literal
LiteralSub(s, i, pattern, replacement) ==
    IF i > Len(s) THEN <<>>
    ELSE IF HasAt(s, i, pattern)
    THEN replacement \o LiteralSub(s, i + Len(pattern), pattern, replacement)
    ELSE <<s[i]>> \o LiteralSub(s, i + 1, pattern, replacement)

\* the "replace" branch of the loop over the changes
ReplaceChange(text, change) ==
    IF Get(change, "pattern", <<>>) # <<>>
    THEN LiteralSub(text, 1, change.pattern, Get(change, "replacement", <<>>))
    ELSE text

RECURSIVE TextChanges(_, _, _)
\* the loop over the changes, from change i on
TextChanges(text, chs, i) ==
    IF i > Len(chs) THEN text
    ELSE IF Get(chs[i], "action", "") = "replace"
    THEN TextChanges(ReplaceChange(text, chs[i]), chs, i + 1)
    ELSE TextChanges(text, chs, i + 1)

\* "if content != original_content": the file is written and True returned
\* when the loop over the changes turned the text into another one
WrittenIfChanged(route, text, new) ==
    [ret |-> new # text, content |-> new, raised |-> FALSE,
     trace |-> [route |-> route, calls |-> <<>>, written |-> new # text]]

\* apply_text_replacements with the change reported whenever the rule has a
\* replacement, whether or not it matched
apply_text_replacements_AnyRule(text, chs) ==
    [WrittenIfChanged("replace", text, TextChanges(text, chs, 1))
        EXCEPT !.ret = chs # <<>>]

\* the whole function on an existing, readable and writable file
apply_text_replacements(text, chs) ==
    WrittenIfChanged("replace", text, TextChanges(text, chs, 1))

-----------------------------------------------------------------------------
(* apply_env_changes *)

\* the last position of the line that holds position r
RECURSIVE LineEnd(_, _)
LineEnd(s, r) ==
    IF r > Len(s) THEN Len(s)
    ELSE IF s[r] = NL THEN r - 1
    ELSE LineEnd(s, r + 1)

\* rf'^{re.escape(key)}\s*=\s*.*$' tried at the line start p: the position
\* of the last character matched, 0 when there is no match
EnvMatchEnd(s, p, key) ==
    LET q == SkipSpace(s, p + Len(key))
        r == SkipSpace(s, q + 1)
    IN  IF HasAt(s, p, key) /\ q <= Len(s) /\ s[q] = "="
        THEN LineEnd(s, r) ELSE 0

\* re.search(pattern, content, re.MULTILINE)
EnvKeyFound(s, key) ==
    \E p \in LineStarts(s) : p <= Len(s) /\ EnvMatchEnd(s, p, key) # 0

RECURSIVE EnvSub(_, _, _, _)
\* re.sub(pattern, replacement, content, flags=re.MULTILINE) from position i
EnvSub(s, i, key, replacement) ==
    IF i > Len(s) THEN <<>>
    ELSE IF i \in LineStarts(s) /\ EnvMatchEnd(s, i, key) # 0
    THEN replacement \o EnvSub(s, EnvMatchEnd(s, i, key) + 1, key, replacement)
    ELSE <<s[i]>> \o EnvSub(s, i + 1, key, replacement)

\* the "update_key" branch of the loop over the changes
EnvUpdate(text, change) ==
    LET key == Get(change, "path", <<>>)
        value == Get(change, "value", <<>>)
        replacement == key \o <<"=">> \o value
    IN  IF key = <<>> THEN text
        ELSE IF EnvKeyFound(text, key) THEN EnvSub(text, 1, key, replacement)
        ELSE (IF text # <<>> /\ ~EndsWithNL(text) THEN text \o <<NL>> ELSE text)
             \o replacement \o <<NL>>

RECURSIVE EnvChanges(_, _, _)
\* the loop over the changes, from change i on
EnvChanges(text, chs, i) ==
    IF i > Len(chs) THEN text
    ELSE IF Get(chs[i], "action", "") = "replace"
    THEN EnvChanges(ReplaceChange(text, chs[i]), chs, i + 1)
    ELSE IF Get(chs[i], "action", "") = "update_key"
    THEN EnvChanges(EnvUpdate(text, chs[i]), chs, i + 1)
    ELSE EnvChanges(text, chs, i + 1)

\* the whole function on an existing, readable and writable file
apply_env_changes(text, chs) ==
    WrittenIfChanged("env", text, EnvChanges(text, chs, 1))

-----------------------------------------------------------------------------
(* apply_json_changes *)

\* The text of a JSON file: the document that json.load gives for it and
\* the layout it is written in ("indent2" is what json.dump(indent=2)
\* followed by a newline writes, "other" any other layout of the same
\* document); a text that json.load rejects has the layout "malformed".
JsonText(layout, doc) == [layout |-> layout, doc |-> doc]

RECURSIVE JsonUpdateAt(_, _, _)
\* update_key from the container cur on, along the non-empty list of str
\* keys: the container afterwards and st = "ok", "stop" or "raise"
\* (ValueError of int(key), IndexError of current[idx])
JsonUpdateAt(cur, keys, value) ==
    LET key == keys[1]
    IN  IF Len(keys) = 1
        THEN IF IsMap(cur) THEN [st |-> "ok", val |-> MapSet(cur, StrV(key), value)]
             ELSE [st |-> "ok", val |-> cur]
        ELSE IF IsMap(cur)
        THEN LET child == IF MapHas(cur, StrV(key)) THEN MapGet(cur, StrV(key))
                          ELSE EmptyMap
                 r == JsonUpdateAt(child, Tail(keys), value)
             IN  [st |-> r.st, val |-> MapSet(cur, StrV(key), r.val)]
        ELSE IF IsList(cur)
        THEN IF key \notin DigitSyms THEN [st |-> "raise", val |-> cur]
             ELSE LET idx == IntOf(key)
                      grown == IF idx >= Len(cur.elems)
                               THEN ListV(Append(cur.elems, EmptyMap)) ELSE cur
                  IN  IF idx >= Len(grown.elems) THEN [st |-> "raise", val |-> grown]
                      ELSE LET r == JsonUpdateAt(grown.elems[idx + 1], Tail(keys), value)
                           IN  [st |-> r.st, val |-> ListSet(grown, idx, r.val)]
        ELSE [st |-> "stop", val |-> cur]

RECURSIVE SegNames(_)
\* the strs of path.split('.')
SegNames(segs) ==
    IF segs = <<>> THEN <<>> ELSE <<NameOf(segs[1])>> \o SegNames(Tail(segs))

\* one pass of the loop over the changes on the loaded data
JsonChange(data, change) ==
    LET path == Get(change, "path", <<>>)
        keys == SegNames(SplitOn(path, "."))
    IN  IF Get(change, "action", "") # "update_key" \/ path = <<>>
        THEN [st |-> "skip", val |-> data, keys |-> <<>>]
        ELSE [st |-> JsonUpdateAt(data, keys, Get(change, "value", NoneV)).st,
              val |-> JsonUpdateAt(data, keys, Get(change, "value", NoneV)).val,
              keys |-> keys]

RECURSIVE JsonChanges(_, _, _)
\* the loop goes on after the pass c of change i, unless the pass raised
JsonChangesFrom(c, chs, i) ==
    IF c.st = "raise"
    THEN [raised |-> TRUE, data |-> c.val,
          steps |-> <<[st |-> c.st, keys |-> c.keys, data |-> c.val]>>]
    ELSE LET r == JsonChanges(c.val, chs, i + 1)
         IN  [raised |-> r.raised, data |-> r.data,
              steps |-> <<[st |-> c.st, keys |-> c.keys, data |-> c.val]>>
                        \o r.steps]

\* the loop over the changes from change i on; it ends at the first raise
JsonChanges(data, chs, i) ==
    IF i > Len(chs) THEN [raised |-> FALSE, data |-> data, steps |-> <<>>]
    ELSE JsonChangesFrom(JsonChange(data, chs[i]), chs, i)

\* the comparison with original_data and the write, after the loop r over the
\* changes on the loaded data
JsonWrite(text, r) ==
    LET t(written) == [route |-> "json", calls |-> <<>>,
                       loaded |-> text.layout # "malformed",
                       data |-> text.doc,
                       steps |-> IF text.layout # "malformed" THEN r.steps ELSE <<>>,
                       written |-> written]
    IN  IF text.layout = "malformed"
        THEN [ret |-> FALSE, content |-> text, raised |-> FALSE, trace |-> t(FALSE)]
        ELSE IF r.raised
        THEN [ret |-> FALSE, content |-> text, raised |-> TRUE, trace |-> t(FALSE)]
        ELSE IF ~SameDump(r.data, text.doc)
        THEN [ret |-> TRUE, content |-> JsonText("indent2", r.data),
              raised |-> FALSE, trace |-> t(TRUE)]
        ELSE [ret |-> FALSE, content |-> text, raised |-> FALSE, trace |-> t(FALSE)]

\* the whole function on an existing, readable and writable file
apply_json_changes(text, chs) == JsonWrite(text, JsonChanges(text.doc, chs, 1))

-----------------------------------------------------------------------------
(* apply_file_changes on one rule whose target file exists *)

\* the try block without its except clause: an exception of the strategy
\* leaves apply_file_changes
Caught_Reraise(r) ==
    [modified |-> r.ret /\ ~r.raised, content |-> r.content,
     raised |-> r.raised, trace |-> r.trace, propagates |-> r.raised]

\* "if strategy(...): modified = True" inside the try block, for the outcome
\* r of the strategy; "except Exception: continue"
Caught(r) ==
    [modified |-> r.ret /\ ~r.raised, content |-> r.content,
     raised |-> r.raised, trace |-> r.trace, propagates |-> FALSE]

\* the body of the loop over the rules: the strategy chosen by file_type;
\* an exception of the strategy is caught and modified stays False
ApplyRule(text, file_type, chs) ==
    Caught(IF file_type = "json" THEN apply_json_changes(text, chs)
           ELSE IF file_type \in {"yaml", "yml"} THEN apply_yaml_changes(text, chs)
           ELSE IF file_type = "env" THEN apply_env_changes(text, chs)
           ELSE apply_text_replacements(text, chs))

-----------------------------------------------------------------------------
(* Inputs *)

\* the key that the rules of the model delete or set, and another key
KeyK == <<"K">>
KeyJ == <<"J">>

\* the line bodies of the generated YAML texts
Bodies ==
    { <<>>,
      <<"K", ":">>,
      <<"K", ":", SP, "v">>,
      <<"K", ":", SP, "#">>,
      <<"J", ":">>,
      <<"-", SP, "J", ":", SP, "v">>,
      <<"#", SP, "c">> }

TBELines == {Spaces(n) \o b : n \in 0..MaxIndent, b \in Bodies}

\* the texts of n such lines, with or without a final newline
TBETexts(n) == { Join(ls) \o tl : ls \in [1..n -> TBELines], tl \in {<<>>, <<NL>>} }

DeleteChange(path, value) ==
    [action |-> "delete_key", path |-> path, value |-> value]

UpdateChange(path, value) ==
    [action |-> "update_key", path |-> path, value |-> value]

ReplaceWith(pattern, replacement) ==
    [action |-> "replace", pattern |-> pattern, replacement |-> replacement]

\* every list of at most MaxOps operations of a set
Rules(ops) == UNION { [1..n -> ops] : n \in 0..MaxOps }

Entry(key, v) == <<StrV(key), v>>

\* the expected values of the configured rules
RolePattern == ListV(<<MapV(<<Entry("key", StrV("role"))>>)>>)
AffinityPattern == MapV(<<Entry("nodeAffinity", EmptyMap)>>)

\* the values under K in the generated documents
Leafs ==
    { StrV("v"),
      RolePattern,
      ListV(<<MapV(<<Entry("key", StrV("zone"))>>)>>),
      ListV(<<EmptyMap>>) }

\* the generated documents: K at the top level, below J, or both
Docs ==
    {EmptyMap}
    \cup {MapV(<<Entry("K", a)>>) : a \in Leafs}
    \cup {MapV(<<Entry("J", MapV(<<Entry("K", a)>>))>>) : a \in Leafs}
    \cup {MapV(<<Entry("J", StrV("v")), Entry("K", a)>>) : a \in Leafs}
    \cup {MapV(<<Entry("K", a), Entry("J", MapV(<<Entry("K", a)>>))>>) : a \in Leafs}

YamlOps ==
    { DeleteChange(KeyK, NoneV),
      DeleteChange(KeyK, RolePattern),
      DeleteChange(<<"J", ".", "K">>, NoneV),
      DeleteChange(<<"J", ".", "K">>, RolePattern),
      DeleteChange(<<"K", "[", "1", "]">>, NoneV),
      DeleteChange(<<"K", "[", "0", "]">>, NoneV),
      DeleteChange(<<>>, NoneV),
      UpdateChange(<<".">>, StrV("w")),
      UpdateChange(KeyK, StrV("w")),
      UpdateChange(<<"J", ".", "K">>, StrV("w")),
      UpdateChange(<<"K", "[", "1", "]">>, StrV("w")),
      UpdateChange(<<"K", "[", "2", "]">>, StrV("w")),
      UpdateChange(<<"K", "[", "1", "]", ".", "J">>, StrV("w")),
      UpdateChange(<<"K", "[", "3", "]", ".", "J">>, StrV("w")),
      UpdateChange(<<"K", "[", "0", "]", ".", "J">>, StrV("w")),
      UpdateChange(<<"J", "[", "1", "]", ".", "K">>, StrV("w")) }

\* the values given to the predicate matcher, as current value and as
\* expected pattern
MatchValues ==
    { NoneV,
      StrV("role"),
      EmptyMap,
      MapV(<<Entry("key", StrV("role"))>>),
      MapV(<<Entry("key", StrV("role")), Entry("operator", StrV("Exists"))>>),
      MapV(<<Entry("operator", StrV("Exists")), Entry("key", StrV("role"))>>),
      MapV(<<Entry("nodeAffinity", EmptyMap)>>),
      MapV(<<Entry("nodeAffinity", StrV("v")), Entry("key", StrV("role"))>>),
      MapV(<<Entry("K", StrV("v")), <<IntV(1), StrV("v")>> >>),
      MapV(<< <<IntV(1), StrV("v")>>, Entry("K", StrV("v"))>>),
      ListV(<<>>),
      ListV(<<EmptyMap>>),
      ListV(<<StrV("role")>>),
      RolePattern,
      ListV(<<MapV(<<Entry("key", StrV("zone"))>>)>>),
      ListV(<<MapV(<<Entry("key", NoneV)>>)>>),
      ListV(<<MapV(<<Entry("key", StrV("role")),
                     Entry("operator", StrV("Exists"))>>)>>),
      ListV(<<MapV(<<Entry("key", StrV("zone"))>>),
              MapV(<<Entry("operator", StrV("Exists")),
                     Entry("key", StrV("role"))>>)>>),
      ListV(<<MapV(<<Entry("nodeAffinity", EmptyMap)>>)>>),
      ListV(<<MapV(<<Entry("key", StrV("role"))>>),
              MapV(<<Entry("key", StrV("role"))>>)>>) }

\* the largest number of rules of an invocation
MaxRules == 2

\* the files of the repository
YamlFile == "values.yaml"
JsonFile == "package.json"
FileNames == {YamlFile, JsonFile}

TargetRule(file, type, chs) == [file |-> file, type |-> type, changes |-> chs]

\* the YAML file: missing, a sequence under K, a scalar under K, malformed
MalformedYaml == <<"K", ":", SP, "v", NL, SP, "J", ":", SP, "v">>

YamlFiles ==
    { <<>>,
      <<dump(MapV(<<Entry("K", ListV(<<EmptyMap>>))>>))>>,
      <<dump(MapV(<<Entry("K", StrV("v"))>>))>>,
      <<MalformedYaml>> }

\* the JSON file: missing, a sequence under K, malformed
JsonFiles ==
    { <<>>,
      <<JsonText("other", MapV(<<Entry("K", ListV(<<EmptyMap>>))>>))>>,
      <<JsonText("malformed", NoneV)>> }

\* the rules of an invocation: on the YAML file an update that raises on
\* the sequence under K, an update, a delete on the text route and a
\* conditional delete; on the JSON file an update that raises on the
\* sequence under K and an update
RunRules ==
    { TargetRule(YamlFile, "yaml",
                 <<UpdateChange(<<"K", "[", "3", "]", ".", "J">>, StrV("w"))>>),
      TargetRule(YamlFile, "yaml", <<UpdateChange(KeyJ, StrV("w"))>>),
      TargetRule(YamlFile, "yaml", <<DeleteChange(KeyK, NoneV)>>),
      TargetRule(YamlFile, "yaml", <<DeleteChange(KeyK, RolePattern)>>),
      TargetRule(JsonFile, "json",
                 <<UpdateChange(<<"K", ".", "J", ".", "K">>, StrV("w"))>>),
      TargetRule(JsonFile, "json", <<UpdateChange(KeyJ, StrV("w"))>>) }

RuleLists == UNION { [1..n -> RunRules] : n \in 0..MaxRules }

\* the scenario of the conditional block delete
ScenarioYaml ==
    Join(<< <<"tolerations", ":">>,
            <<"-", SP, "key", ":", SP, "role">>,
            <<SP, SP, "operator", ":", SP, "Exists">>,
            <<"affinity", ":">>,
            <<SP, SP, "nodeAffinity", ":">>,
            <<SP, SP, SP, SP, "requiredDuringScheduling", ":", SP, "{}">>,
            <<"replicaCount", ":", SP, "2">> >>) \o <<NL>>

ScenarioYamlRule ==
    << DeleteChange(<<"tolerations">>, RolePattern),
       DeleteChange(<<"affinity">>, AffinityPattern) >>

\* the scenario of the path "jobs.build.steps[0].uses"
ScenarioPath == <<"jobs", ".", "build", ".", "steps", "[", "0", "]", ".", "uses">>

ScenarioPathDoc ==
    MapV(<<Entry("jobs", MapV(<<Entry("build",
         MapV(<<Entry("steps", ListV(<<EmptyMap>>))>>))>>))>>)

JsonOps ==
    { UpdateChange(KeyK, StrV("w")),
      UpdateChange(<<"J", ".", "K">>, StrV("w")),
      UpdateChange(<<"K", ".", "0", ".", "J">>, StrV("w")),
      UpdateChange(<<"K", ".", "1", ".", "J">>, StrV("w")),
      UpdateChange(<<"K", ".", "3", ".", "J">>, StrV("w")),
      UpdateChange(<<"K", ".", "J", ".", "K">>, StrV("w")),
      UpdateChange(<<".">>, StrV("w")) }

JsonTexts ==
    {JsonText(l, d) : l \in {"indent2", "other"}, d \in Docs}
    \cup {JsonText("malformed", NoneV)}

\* env keys: one is a prefix of the other
KeyA == <<"API_KEY">>
KeyAV == <<"API_KEY", "_VERSION">>

EnvLines ==
    { <<>>,
      KeyA \o <<"=", "old">>,
      KeyA \o <<"=">>,
      KeyAV \o <<"=", "1">>,
      <<"B", "=", "2">> }

EnvTexts ==
    {<<>>} \cup
    UNION { { Join(ls) \o tl : ls \in [1..n -> EnvLines], tl \in {<<>>, <<NL>>} }
            : n \in 1..MaxEnvLines }

EnvOps ==
    { UpdateChange(KeyA, <<"new">>),
      UpdateChange(KeyAV, <<"3">>),
      ReplaceWith(<<"old">>, <<"new">>) }

\* the scenario of the text replacement
ScenarioText ==
    <<"@Library('gcp-jenkins-library@", "2.2.5", "')", NL, "pipeline">>

ScenarioTextRule ==
    << ReplaceWith(<<"@Library('gcp-jenkins-library@", "2.2.5", "')">>,
                   <<"@Library('gcp-jenkins-library@", "2.2.6", "')">>) >>

TextTexts == UNION { [1..n -> {"a", "b", NL}] : n \in 0..MaxLines }

TextOps ==
    { ReplaceWith(<<"a">>, <<"b">>),
      ReplaceWith(<<"a">>, <<"a", "b">>),
      ReplaceWith(<<"b", NL>>, <<NL>>),
      ReplaceWith(<<>>, <<"b">>) }

NoTrace == [route |-> "none", calls |-> <<>>]

-----------------------------------------------------------------------------
(* Specifications *)

\* no call of the predicate matcher on its own
NoCall ==
    /\ match_current = NoneV
    /\ match_pattern = NoneV
    /\ matched = <<>>

\* the file and the rule before the first application
StartRule(text, file_type, chs) ==
    /\ content = text
    /\ ftype = file_type
    /\ changes = chs
    /\ runs = 0
    /\ before = text
    /\ modified = FALSE
    /\ raised = FALSE
    /\ trace = NoTrace

\* the result dictionary process_repository starts with
NoResult ==
    [status |-> "unknown", error |-> "None", skipped |-> FALSE,
     skipped_reason |-> "None", pr_url |-> "None"]

\* no loop of apply_values_yaml_changes
NoLoop ==
    /\ block_name = <<>>
    /\ block_content = <<>>
    /\ block_before = <<>>
    /\ block_passes = 0
    /\ block_removed = FALSE
    /\ block_done = FALSE

\* no run of main and no call of process_repository
NoMain ==
    /\ dry_run = FALSE
    /\ update_existing_pr = FALSE
    /\ repos = 0
    /\ repo_index = 1
    /\ results = <<>>
    /\ exit_code = <<>>
    /\ pc = "idle"
    /\ clone_exists = FALSE
    /\ existing_pr_url = "None"
    /\ result = NoResult
    /\ log = <<>>
    /\ pr_return = <<>>

\* no invocation of apply_file_changes on a rule list
NoRun ==
    /\ rules = <<>>
    /\ files = <<>>
    /\ rule_index = 1
    /\ changes_made = FALSE
    /\ modified_files = <<>>
    /\ propagated = FALSE
    /\ returned = FALSE

\* the state before the first application of the rule to the file
Start(text, file_type, chs) ==
    NoCall /\ NoRun /\ NoMain /\ NoLoop /\ StartRule(text, file_type, chs)

\* no rule and no file
NoRule == StartRule(<<>>, "yaml", <<>>)

\* the text-block editor: an unconditional delete of K on any generated text
InitTBE ==
    \/ \E n \in 1..MaxLines : \E text \in TBETexts(n) :
          Start(text, "yaml", <<DeleteChange(KeyK, NoneV)>>)
    \/ Start(ScenarioYaml, "yaml", ScenarioYamlRule)

InitYaml ==
    \/ \E d \in Docs, chs \in Rules(YamlOps) : Start(dump(d), "yaml", chs)
    \/ Start(ScenarioYaml, "yaml", ScenarioYamlRule)
    \/ Start(dump(ScenarioPathDoc), "yaml", <<UpdateChange(ScenarioPath, StrV("v"))>>)

InitJson == \E text \in JsonTexts, chs \in Rules(JsonOps) : Start(text, "json", chs)

InitEnv == \E text \in EnvTexts, chs \in Rules(EnvOps) : Start(text, "env", chs)

InitText ==
    \/ \E text \in TextTexts, chs \in Rules(TextOps) : Start(text, "text", chs)
    \/ Start(ScenarioText, "text", ScenarioTextRule)

Init == InitYaml \/ InitJson \/ InitEnv \/ InitText

\* the file and the outcome after an application whose result is r
Applied(r) ==
    /\ content' = r.content
    /\ modified' = r.modified
    /\ raised' = r.raised
    /\ trace' = r.trace

\* one pass of the loop of apply_file_changes over the rule: the rule is
\* applied to the file once more
Apply ==
    /\ runs < MaxRuns
    /\ Applied(ApplyRule(content, ftype, changes))
    /\ before' = content
    /\ runs' = runs + 1
    /\ UNCHANGED <<ftype, changes>>
    /\ UNCHANGED matchVars
    /\ UNCHANGED runVars
    /\ UNCHANGED mainVars
    /\ UNCHANGED repoVars
    /\ UNCHANGED blockVars

ApplyJson == ftype = "json" /\ Apply

ApplyYaml == ftype \in {"yaml", "yml"} /\ Apply

ApplyEnv == ftype = "env" /\ Apply

ApplyText == ftype \notin {"json", "yaml", "yml", "env"} /\ Apply

Next == ApplyJson \/ ApplyYaml \/ ApplyEnv \/ ApplyText

Spec == Init /\ [][Next]_vars

\* the strategies one at a time
NextTBE == ApplyYaml

SpecTBE == InitTBE /\ [][NextTBE]_vars

NextYaml == ApplyYaml

SpecYaml == InitYaml /\ [][NextYaml]_vars

NextEnv == ApplyEnv

SpecEnv == InitEnv /\ [][NextEnv]_vars

\* the predicate matcher on its own: one call of _yaml_value_contains on a
\* current value and an expected pattern
InitMatch ==
    \E cur \in MatchValues, pat \in MatchValues :
        /\ NoRule
        /\ NoRun
        /\ NoMain
        /\ NoLoop
        /\ match_current = cur
        /\ match_pattern = pat
        /\ matched = <<>>

Match ==
    /\ matched = <<>>
    /\ matched' = <<_yaml_value_contains(match_current, match_pattern)>>
    /\ UNCHANGED <<match_current, match_pattern>>
    /\ UNCHANGED ruleVars
    /\ UNCHANGED runVars
    /\ UNCHANGED mainVars
    /\ UNCHANGED repoVars
    /\ UNCHANGED blockVars

NextMatch == Match

SpecMatch == InitMatch /\ [][NextMatch]_vars

\* apply_file_changes on a rule list and a repository
InitRun ==
    \E rs \in RuleLists, y \in YamlFiles, j \in JsonFiles :
        /\ NoCall
        /\ NoRule
        /\ NoMain
        /\ NoLoop
        /\ rules = rs
        /\ files = [f \in FileNames |-> IF f = YamlFile THEN y ELSE j]
        /\ rule_index = 1
        /\ changes_made = FALSE
        /\ modified_files = <<>>
        /\ propagated = FALSE
        /\ returned = FALSE

\* "if not file_path.exists(): continue"
SkipRule(rule) ==
    /\ ftype' = rule.type
    /\ changes' = rule.changes
    /\ modified' = FALSE
    /\ raised' = FALSE
    /\ trace' = NoTrace
    /\ UNCHANGED <<content, before, files, changes_made, modified_files, propagated>>

\* the try block with the file reported whatever the strategy returned
TryRule_AlwaysReport(rule, text, r) ==
    /\ Applied(r)
    /\ before' = text
    /\ ftype' = rule.type
    /\ changes' = rule.changes
    /\ files' = [files EXCEPT ![rule.file] = <<r.content>>]
    /\ changes_made' = (changes_made \/ r.modified)
    /\ modified_files' = Append(modified_files, rule.file)
    /\ propagated' = r.propagates

\* the try block of the loop on the existing file of the rule, r being the
\* outcome of the rule
TryRule(rule, text, r) ==
    /\ Applied(r)
    /\ before' = text
    /\ ftype' = rule.type
    /\ changes' = rule.changes
    /\ files' = [files EXCEPT ![rule.file] = <<r.content>>]
    /\ changes_made' = (changes_made \/ r.modified)
    /\ modified_files' = IF r.modified THEN Append(modified_files, rule.file)
                         ELSE modified_files
    /\ propagated' = r.propagates

\* one pass of the loop of apply_file_changes, on the rule at rule_index
PassOn(rule) ==
    IF files[rule.file] = <<>>
    THEN SkipRule(rule)
    ELSE TryRule(rule, files[rule.file][1],
                 ApplyRule(files[rule.file][1], rule.type, rule.changes))

RulePass ==
    /\ ~propagated
    /\ rule_index <= Len(rules)
    /\ PassOn(rules[rule_index])
    /\ rule_index' = rule_index + 1
    /\ UNCHANGED <<runs, rules, returned>>
    /\ UNCHANGED matchVars
    /\ UNCHANGED mainVars
    /\ UNCHANGED repoVars
    /\ UNCHANGED blockVars

\* "return changes_made, modified_files" after the loop
Return ==
    /\ ~propagated
    /\ ~returned
    /\ rule_index > Len(rules)
    /\ returned' = TRUE
    /\ UNCHANGED <<rules, files, rule_index, changes_made, modified_files, propagated>>
    /\ UNCHANGED ruleVars
    /\ UNCHANGED matchVars
    /\ UNCHANGED mainVars
    /\ UNCHANGED repoVars
    /\ UNCHANGED blockVars

NextRun == RulePass \/ Return

SpecRun == InitRun /\ [][NextRun]_vars

-----------------------------------------------------------------------------
(* process_repository and the loop of main *)

\* the largest number of repositories of a run of main
MaxRepos == 2

\* the URL check_existing_pr and "gh pr create" report
PrUrl == "https://github.com/o/r/pull/1"

\* what check_existing_pr returns: None, or the URL of the open pull request
PrChecks == {"None", PrUrl}

\* the working copies of a repository
WorkCopies ==
    { [f \in FileNames |-> <<>>],
      [f \in FileNames |->
          IF f = YamlFile THEN <<dump(MapV(<<Entry("K", StrV("v"))>>))>>
          ELSE <<>>],
      [f \in FileNames |->
          IF f = YamlFile THEN <<dump(MapV(<<Entry("K", ListV(<<EmptyMap>>))>>))>>
          ELSE <<JsonText("other", MapV(<<Entry("K", ListV(<<EmptyMap>>))>>))>>] }

\* a clone directory that does not hold the repository
NoCopy == [f \in FileNames |-> <<>>]

\* the rule lists of a run of main
RepoRuleLists ==
    { <<>>,
      <<TargetRule(YamlFile, "yaml", <<UpdateChange(KeyJ, StrV("w"))>>)>>,
      <<TargetRule(YamlFile, "yaml",
                   <<UpdateChange(<<"K", "[", "3", "]", ".", "J">>, StrV("w"))>>),
        TargetRule(JsonFile, "json", <<UpdateChange(KeyJ, StrV("w"))>>)>> }

\* a step of process_repository: executed is false when dry_run only
\* announced the step
Step(op, executed, ok) == [op |-> op, executed |-> executed, ok |-> ok]

\* "result["status"] = "failed"; result["error"] = ...; return result"
Failed(error) ==
    /\ result' = [result EXCEPT !.status = "failed", !.error = error]
    /\ pc' = "return"

\* "result["status"] = "skipped"; result["skipped"] = True; ...; return result"
Skipped(reason, url) ==
    /\ result' = [result EXCEPT !.status = "skipped", !.skipped = TRUE,
                                !.skipped_reason = reason, !.pr_url = url]
    /\ pc' = "return"

\* main before its loop over the repositories
InitRepo ==
    \E rs \in RepoRuleLists, dry \in BOOLEAN, upd \in BOOLEAN, n \in 1..MaxRepos :
        /\ NoCall
        /\ NoRule
        /\ rules = rs
        /\ files = NoCopy
        /\ rule_index = 1
        /\ changes_made = FALSE
        /\ modified_files = <<>>
        /\ propagated = FALSE
        /\ returned = FALSE
        /\ dry_run = dry
        /\ update_existing_pr = upd
        /\ repos = n
        /\ repo_index = 1
        /\ results = <<>>
        /\ exit_code = <<>>
        /\ pc = "main"
        /\ clone_exists = FALSE
        /\ existing_pr_url = "None"
        /\ result = NoResult
        /\ log = <<>>
        /\ pr_return = <<>>
        /\ NoLoop

\* main calls process_repository on the next repository, whose clone
\* directory holds the repository or not
ProcessRepository ==
    /\ pc = "main"
    /\ repo_index <= repos
    /\ pc' = "clone"
    /\ result' = NoResult
    /\ log' = <<>>
    /\ pr_return' = <<>>
    /\ existing_pr_url' = "None"
    /\ \E exists \in BOOLEAN, copy \in WorkCopies :
          /\ clone_exists' = exists
          /\ files' = IF exists THEN copy ELSE NoCopy
    /\ rule_index' = 1
    /\ changes_made' = FALSE
    /\ modified_files' = <<>>
    /\ propagated' = FALSE
    /\ returned' = FALSE
    /\ UNCHANGED rules
    /\ UNCHANGED mainVars
    /\ UNCHANGED blockVars
    /\ UNCHANGED ruleVars
    /\ UNCHANGED matchVars

\* step 1, clone_repository and the test of its result
CloneRepository ==
    /\ pc = "clone"
    /\ \/ /\ dry_run
          /\ log' = Append(log, Step("clone", FALSE, TRUE))
          /\ pc' = "branch"
          /\ UNCHANGED <<files, clone_exists, result>>
       \/ /\ ~dry_run
          /\ clone_exists
          /\ pc' = "branch"
          /\ UNCHANGED <<files, clone_exists, result, log>>
       \/ /\ ~dry_run
          /\ ~clone_exists
          /\ \E copy \in WorkCopies :
                /\ files' = copy
                /\ clone_exists' = TRUE
                /\ log' = Append(log, Step("clone", TRUE, TRUE))
                /\ pc' = "branch"
                /\ UNCHANGED result
       \/ /\ ~dry_run
          /\ ~clone_exists
          /\ log' = Append(log, Step("clone", TRUE, FALSE))
          /\ Failed("Failed to clone repository")
          /\ UNCHANGED <<files, clone_exists>>
    /\ UNCHANGED <<existing_pr_url, pr_return>>
    /\ UNCHANGED <<rules, rule_index, changes_made, modified_files, propagated, returned>>
    /\ UNCHANGED mainVars
    /\ UNCHANGED blockVars
    /\ UNCHANGED ruleVars
    /\ UNCHANGED matchVars

\* step 2, create_branch and the test of its result: the checkout and the
\* reset to the remote branch leave some working copy
CreateBranch ==
    /\ pc = "branch"
    /\ \/ /\ dry_run
          /\ log' = Append(log, Step("branch", FALSE, TRUE))
          /\ pc' = "check"
          /\ UNCHANGED <<files, result>>
       \/ /\ ~dry_run
          /\ \E copy \in WorkCopies : files' = copy
          /\ log' = Append(log, Step("branch", TRUE, TRUE))
          /\ pc' = "check"
          /\ UNCHANGED result
       \/ /\ ~dry_run
          /\ log' = Append(log, Step("branch", TRUE, FALSE))
          /\ Failed("Failed to create branch")
          /\ UNCHANGED files
    /\ UNCHANGED <<clone_exists, existing_pr_url, pr_return>>
    /\ UNCHANGED <<rules, rule_index, changes_made, modified_files, propagated, returned>>
    /\ UNCHANGED mainVars
    /\ UNCHANGED blockVars
    /\ UNCHANGED ruleVars
    /\ UNCHANGED matchVars

\* "existing_pr_url = check_existing_pr(...)" before the changes
CheckExistingPr ==
    /\ pc = "check"
    /\ \E url \in PrChecks :
          /\ existing_pr_url' = url
          /\ result' = IF url # "None" THEN [result EXCEPT !.pr_url = url]
                       ELSE result
    /\ pc' = "changes"
    /\ UNCHANGED <<clone_exists, log, pr_return>>
    /\ UNCHANGED runVars
    /\ UNCHANGED mainVars
    /\ UNCHANGED blockVars
    /\ UNCHANGED ruleVars
    /\ UNCHANGED matchVars

\* step 3, one pass of the loop of apply_file_changes(repo_path, rules)
ApplyFileChanges ==
    /\ pc = "changes"
    /\ RulePass

\* the return of apply_file_changes and "if not changes_made"
ChangesReturn ==
    /\ pc = "changes"
    /\ ~propagated
    /\ rule_index > Len(rules)
    /\ returned' = TRUE
    /\ IF ~changes_made
       THEN Skipped(IF existing_pr_url # "None"
                    THEN "No changes were made (PR already exists)"
                    ELSE "No changes were made", result.pr_url)
       ELSE /\ pc' = IF existing_pr_url = "None" THEN "recheck" ELSE "decide"
            /\ UNCHANGED result
    /\ UNCHANGED <<clone_exists, existing_pr_url, log, pr_return>>
    /\ UNCHANGED <<rules, files, rule_index, changes_made, modified_files, propagated>>
    /\ UNCHANGED mainVars
    /\ UNCHANGED blockVars
    /\ UNCHANGED ruleVars
    /\ UNCHANGED matchVars

\* the second check_existing_pr, made when the first one found nothing
RecheckPr ==
    /\ pc = "recheck"
    /\ \E url \in PrChecks :
          /\ existing_pr_url' = url
          /\ result' = IF url # "None" THEN [result EXCEPT !.pr_url = url]
                       ELSE result
    /\ pc' = "decide"
    /\ UNCHANGED <<clone_exists, log, pr_return>>
    /\ UNCHANGED runVars
    /\ UNCHANGED mainVars
    /\ UNCHANGED blockVars
    /\ UNCHANGED ruleVars
    /\ UNCHANGED matchVars

\* "if existing_pr_url and not update_existing_pr" with no skip at all
SkipExisting_Never ==
    /\ pc = "decide"
    /\ pc' = "commit"
    /\ UNCHANGED result
    /\ UNCHANGED <<clone_exists, existing_pr_url, log, pr_return>>
    /\ UNCHANGED runVars
    /\ UNCHANGED mainVars
    /\ UNCHANGED blockVars
    /\ UNCHANGED ruleVars
    /\ UNCHANGED matchVars

\* "if existing_pr_url and not update_existing_pr": skip without a commit
SkipExisting ==
    /\ pc = "decide"
    /\ IF existing_pr_url # "None" /\ ~update_existing_pr
       THEN Skipped("PR already exists (use --update-existing-pr to commit to existing branch)",
                    existing_pr_url)
       ELSE /\ pc' = "commit"
            /\ UNCHANGED result
    /\ UNCHANGED <<clone_exists, existing_pr_url, log, pr_return>>
    /\ UNCHANGED runVars
    /\ UNCHANGED mainVars
    /\ UNCHANGED blockVars
    /\ UNCHANGED ruleVars
    /\ UNCHANGED matchVars

\* commit_changes and the test of its result: git status may show no
\* change, and git add or git commit may fail
CommitChanges ==
    /\ pc = "commit"
    /\ \/ /\ dry_run
          /\ log' = Append(log, Step("commit", FALSE, TRUE))
          /\ pc' = "push"
          /\ UNCHANGED result
       \/ /\ ~dry_run
          /\ log' = Append(log, Step("commit", TRUE, TRUE))
          /\ pc' = "push"
          /\ UNCHANGED result
       \/ /\ ~dry_run
          /\ UNCHANGED log
          /\ Skipped("No changes to commit", result.pr_url)
       \/ /\ ~dry_run
          /\ log' = Append(log, Step("commit", TRUE, FALSE))
          /\ Skipped("No changes to commit", result.pr_url)
    /\ UNCHANGED <<clone_exists, existing_pr_url, pr_return>>
    /\ UNCHANGED runVars
    /\ UNCHANGED mainVars
    /\ UNCHANGED blockVars
    /\ UNCHANGED ruleVars
    /\ UNCHANGED matchVars

\* step 4, push_branch and the test of its result
PushBranch ==
    /\ pc = "push"
    /\ \/ /\ dry_run
          /\ log' = Append(log, Step("push", FALSE, TRUE))
          /\ pc' = "pr"
          /\ UNCHANGED result
       \/ /\ ~dry_run
          /\ log' = Append(log, Step("push", TRUE, TRUE))
          /\ pc' = "pr"
          /\ UNCHANGED result
       \/ /\ ~dry_run
          /\ log' = Append(log, Step("push", TRUE, FALSE))
          /\ Failed("Failed to push branch")
    /\ UNCHANGED <<clone_exists, existing_pr_url, pr_return>>
    /\ UNCHANGED runVars
    /\ UNCHANGED mainVars
    /\ UNCHANGED blockVars
    /\ UNCHANGED ruleVars
    /\ UNCHANGED matchVars

\* a value create_pull_request returns: the pair (url, is_existing), or a
\* value that is not a pair
Pair(url, is_existing) ==
    [is_pair |-> TRUE, url |-> url, is_existing |-> is_existing]

NotAPair == [is_pair |-> FALSE, url |-> "None", is_existing |-> FALSE]

\* create_pull_request: checked is what its own check_existing_pr returns,
\* created whether "gh pr create" succeeded
create_pull_request(dry, checked, created) ==
    IF dry THEN NotAPair
    ELSE IF checked # "None" THEN Pair(checked, TRUE)
    ELSE IF created THEN Pair(PrUrl, FALSE)
    ELSE Pair("None", FALSE)

\* the steps create_pull_request executes
PrSteps(dry, checked, created) ==
    IF dry THEN <<Step("pr_create", FALSE, TRUE)>>
    ELSE IF checked # "None" THEN <<>>
    ELSE <<Step("pr_create", TRUE, created)>>

\* the unpacking with no "except Exception" around it: the TypeError leaves
\* process_repository
Unpack_NoExcept(ret) ==
    IF ~ret.is_pair
    THEN /\ pc' = "raised"
         /\ UNCHANGED result
    ELSE IF ret.url = "None"
    THEN Failed("Failed to create pull request")
    ELSE /\ result' = [result EXCEPT !.status = "success", !.pr_url = ret.url]
         /\ pc' = "return"

\* "pr_url, is_existing = ret" and what follows it; a value that is not a
\* pair raises TypeError, which "except Exception as e" turns into a result
Unpack(ret) ==
    IF ~ret.is_pair
    THEN Failed("cannot unpack non-iterable NoneType object")
    ELSE IF ret.url = "None"
    THEN Failed("Failed to create pull request")
    ELSE /\ result' = [result EXCEPT !.status = "success", !.pr_url = ret.url]
         /\ pc' = "return"

\* step 5, create_pull_request and the handling of its result
CreatePullRequest ==
    /\ pc = "pr"
    /\ \E checked \in PrChecks, created \in BOOLEAN :
          /\ pr_return' = <<create_pull_request(dry_run, checked, created)>>
          /\ log' = log \o PrSteps(dry_run, checked, created)
          /\ Unpack(create_pull_request(dry_run, checked, created))
    /\ UNCHANGED <<clone_exists, existing_pr_url>>
    /\ UNCHANGED runVars
    /\ UNCHANGED mainVars
    /\ UNCHANGED blockVars
    /\ UNCHANGED ruleVars
    /\ UNCHANGED matchVars

\* "summary[result["status"]] += 1" of main, and the next repository
Collect ==
    /\ pc = "return"
    /\ results' = Append(results, result.status)
    /\ repo_index' = repo_index + 1
    /\ pc' = "main"
    /\ UNCHANGED <<dry_run, update_existing_pr, repos, exit_code>>
    /\ UNCHANGED <<clone_exists, existing_pr_url, result, log, pr_return>>
    /\ UNCHANGED blockVars
    /\ UNCHANGED runVars
    /\ UNCHANGED ruleVars
    /\ UNCHANGED matchVars

\* the number of the collected results with status "failed"
FailedCount == Cardinality({ i \in 1..Len(results) : results[i] = "failed" })

\* "if summary['failed'] > 0: sys.exit(1)" at the end of main
Exit ==
    /\ pc = "main"
    /\ repo_index > repos
    /\ exit_code' = <<IF FailedCount > 0 THEN 1 ELSE 0>>
    /\ pc' = "exit"
    /\ UNCHANGED <<dry_run, update_existing_pr, repos, repo_index, results>>
    /\ UNCHANGED <<clone_exists, existing_pr_url, result, log, pr_return>>
    /\ UNCHANGED blockVars
    /\ UNCHANGED runVars
    /\ UNCHANGED ruleVars
    /\ UNCHANGED matchVars

NextRepo ==
    \/ ProcessRepository
    \/ CloneRepository
    \/ CreateBranch
    \/ CheckExistingPr
    \/ ApplyFileChanges
    \/ ChangesReturn
    \/ RecheckPr
    \/ SkipExisting
    \/ CommitChanges
    \/ PushBranch
    \/ CreatePullRequest
    \/ Collect
    \/ Exit

SpecRepo == InitRepo /\ [][NextRepo]_vars

-----------------------------------------------------------------------------
(* remove_yaml_block_v2 and the loop of apply_values_yaml_changes *)

\* stripped == f"{block_name}:" or stripped.startswith(f"{block_name}: ")
StartsBlock(line, name) ==
    \/ Strip(line) = name \o <<":">>
    \/ StartsWith(Strip(line), name \o <<":", SP>>)

RECURSIVE PeekLine(_, _)
\* the look-ahead over the empty lines: the index of the first line from
\* peek on that is not empty, or the index after the last line
PeekLine(lines, peek) ==
    IF peek > Len(lines) THEN peek
    ELSE IF Strip(lines[peek]) = <<>> THEN PeekLine(lines, peek + 1)
    ELSE peek

\* the line is deeper than the block, or a list item at its indentation
InBlock(line, block_indent) ==
    \/ IndentOf(line) > block_indent
    \/ IndentOf(line) = block_indent /\ StartsWith(Strip(line), <<"-">>)

\* "if peek < len(lines)" and the test of the line found by the look-ahead
PeekInBlock(lines, peek, block_indent) ==
    peek <= Len(lines) /\ InBlock(lines[peek], block_indent)

RECURSIVE SkipLines(_, _, _)
\* the inner loop over the lines of the block; the index of the first line
\* that is not skipped
SkipLines(lines, i, block_indent) ==
    IF i > Len(lines) THEN i
    ELSE IF Strip(lines[i]) = <<>>
    THEN IF PeekInBlock(lines, PeekLine(lines, i + 1), block_indent)
         THEN SkipLines(lines, i + 1, block_indent)
         ELSE i
    ELSE IF InBlock(lines[i], block_indent)
    THEN SkipLines(lines, i + 1, block_indent)
    ELSE IF ~StartsWith(Strip(lines[i]), <<"-">>) THEN i
    ELSE SkipLines(lines, i + 1, block_indent)

\* result and removed with the line in front of what the rest of the scan gave
KeepLine(line, rest) ==
    [result |-> <<line>> \o rest.result, removed |-> rest.removed]

RECURSIVE RemoveFrom_FirstOnly(_, _, _)
\* the outer loop stopping at the first block: the lines after it are kept
RemoveFrom_FirstOnly(lines, i, name) ==
    IF i > Len(lines) THEN [result |-> <<>>, removed |-> FALSE]
    ELSE IF StartsBlock(lines[i], name)
    THEN [result |-> SubSeq(lines, SkipLines(lines, i + 1, IndentOf(lines[i])),
                            Len(lines)),
          removed |-> TRUE]
    ELSE KeepLine(lines[i], RemoveFrom_FirstOnly(lines, i + 1, name))

RECURSIVE RemoveFrom(_, _, _)
\* the outer loop from index i on: result and removed
RemoveFrom(lines, i, name) ==
    IF i > Len(lines) THEN [result |-> <<>>, removed |-> FALSE]
    ELSE IF StartsBlock(lines[i], name)
    THEN [result |-> RemoveFrom(lines, SkipLines(lines, i + 1, IndentOf(lines[i])),
                                name).result,
          removed |-> TRUE]
    ELSE KeepLine(lines[i], RemoveFrom(lines, i + 1, name))

\* return '\n'.join(result), removed
JoinResult(r) == [content |-> Join(r.result), removed |-> r.removed]

remove_yaml_block_v2(text, name) == JoinResult(RemoveFrom(Split(text), 1, name))

\* apply_values_yaml_changes before the loop that removes one block name
InitLoop ==
    \E n \in 1..MaxLines : \E text \in TBETexts(n) :
        /\ NoCall
        /\ NoRun
        /\ NoMain
        /\ NoRule
        /\ block_name = KeyK
        /\ block_content = text
        /\ block_before = text
        /\ block_passes = 0
        /\ block_removed = FALSE
        /\ block_done = FALSE

\* the values of a pass of the loop, r being what remove_yaml_block_v2 returned
PassGives(r) ==
    /\ block_content' = r.content
    /\ block_removed' = r.removed
    /\ block_done' = ~r.removed

\* one pass of "while True: content, removed = remove_yaml_block_v2(...);
\* if removed: ... else: break"
RemovePass ==
    /\ ~block_done
    /\ PassGives(remove_yaml_block_v2(block_content, block_name))
    /\ block_before' = block_content
    /\ block_passes' = block_passes + 1
    /\ UNCHANGED block_name
    /\ UNCHANGED ruleVars
    /\ UNCHANGED matchVars
    /\ UNCHANGED runVars
    /\ UNCHANGED mainVars
    /\ UNCHANGED repoVars

NextLoop == RemovePass

SpecLoop == InitLoop /\ [][NextLoop]_vars

-----------------------------------------------------------------------------
(* Vocabulary of the properties of the text-block editor *)

\* the calls of the text-block editor made by the latest application
Calls == IF runs >= 1 /\ trace.route = "text" THEN trace.calls ELSE <<>>

Range(f) == {f[k] : k \in DOMAIN f}

\* indices of the input lines that the call did not write back
Removed(c) == (1..Len(c.lines)) \ Range(c.kept)

IsBlank(line) == \A k \in 1..Len(line) : IsSpace(line[k])

IsListItem(line) == ~IsBlank(line) /\ LStrip(line)[1] = "-"

\* the line is "<indent><name>:..." for a key name other than key_name
IsOtherKeyLine(line, key_name) ==
    /\ ~IsBlank(line)
    /\ LStrip(line)[1] \notin {"-", "#", ":"}
    /\ <<LStrip(line)[1]>> # key_name
    /\ LET r == SkipSpace(line, IndentOf(line) + 2)
       IN  r <= Len(line) /\ line[r] = ":"

\* line j is a key J other than K, not a list item, at an indentation that
\* does not exceed that of the deleted occurrence o of K, which it follows
IsOuterKeyAfter(c, o, j) ==
    /\ j > o.at
    /\ IsOtherKeyLine(c.lines[j], c.key)
    /\ IndentOf(c.lines[j]) <= o.indent

\* the lines of a text file: a final newline ends the last line and starts
\* no further one, the empty text has no line
TextLines(s) ==
    IF s = <<>> THEN <<>>
    ELSE IF EndsWithNL(s) THEN SubSeq(Split(s), 1, Len(Split(s)) - 1)
    ELSE Split(s)

RECURSIVE IsSubseq(_, _)
\* a is b with some elements left out
IsSubseq(a, b) ==
    IF a = <<>> THEN TRUE
    ELSE IF b = <<>> THEN FALSE
    ELSE IF a[1] = b[1] THEN IsSubseq(Tail(a), Tail(b))
    ELSE IsSubseq(a, Tail(b))

-----------------------------------------------------------------------------
(* Properties of the text-block editor *)

\* C1, as stated: after a deleted occurrence of K, no line that is a key
\* other than K, is not a list item and is indented no more than K is
\* removed from the output.
C1_NoOuterKeyRemoved ==
    \A n \in 1..Len(Calls) :
        LET c == Calls[n]
        IN  \A a \in 1..Len(c.occ) : \A j \in 1..Len(c.lines) :
                IsOuterKeyAfter(c, c.occ[a], j) => j \notin Removed(c)

\* C1, amended: such a line is never removed as part of that occurrence's
\* block; when it is removed, it lies in the block of a later occurrence of
\* K whose key line is indented less than the line.
C1_OuterKeyOutlivesBlock ==
    \A n \in 1..Len(Calls) :
        LET c == Calls[n]
        IN  \A a \in 1..Len(c.occ) : \A j \in 1..Len(c.lines) :
                IsOuterKeyAfter(c, c.occ[a], j) =>
                    /\ ~(c.occ[a].at <= j /\ j < c.occ[a].end)
                    /\ j \in Removed(c) =>
                           \E b \in 1..Len(c.occ) :
                               /\ c.occ[b].at > c.occ[a].at
                               /\ c.occ[b].at < j /\ j < c.occ[b].end
                               /\ c.occ[b].indent < IndentOf(c.lines[j])

\* C1, witness: a block of K with nested content was deleted and the line
\* right after the block is a sibling key J, which is kept.
C1_Witness ==
    \E n \in 1..Len(Calls) :
        LET c == Calls[n]
        IN  \E a \in 1..Len(c.occ) :
                LET o == c.occ[a]
                IN  /\ o.end > o.at + 1
                    /\ o.end <= Len(c.lines)
                    /\ ~IsBlank(c.lines[o.end - 1])
                    /\ IsOuterKeyAfter(c, o, o.end)
                    /\ IndentOf(c.lines[o.end]) = o.indent
                    /\ o.end \in Range(c.kept)

\* C2, as stated: the lines of the file after a deletion are a subsequence
\* of the input lines, and every line that is gone is a K key line or lies
\* in the block of a K key line (blank, deeper than K, or a list item at
\* K's indentation).
C2_FormattingPreserved ==
    \A n \in 1..Len(Calls) :
        LET c == Calls[n]
        IN  c.ret =>
              /\ IsSubseq(TextLines(c.content), TextLines(c.text))
              /\ \A j \in Removed(c) :
                    \/ KeyMatch(c.lines[j], c.key).m
                    \/ \E a \in 1..Len(c.occ) :
                          /\ c.occ[a].at < j /\ j < c.occ[a].end
                          /\ \/ IsBlank(c.lines[j])
                             \/ IndentOf(c.lines[j]) > c.occ[a].indent
                             \/ /\ IndentOf(c.lines[j]) = c.occ[a].indent
                                /\ IsListItem(c.lines[j])

\* the input lines that the call left unconsumed, the final empty piece of a
\* newline-terminated input not being a line
UnconsumedLines(c) ==
    LET idx == SelectSeq(c.kept, LAMBDA k : k <= Len(TextLines(c.text)))
    IN  [k \in 1..Len(idx) |-> c.lines[idx[k]]]

\* C3, as stated: what a deletion writes is the unconsumed lines joined by
\* newlines, followed by one newline iff the input ended with one; in the
\* scenario the two deletes leave exactly "replicaCount: 2" and report a
\* change.
C3_TrailingNewline ==
    /\ \A n \in 1..Len(Calls) :
          LET c == Calls[n]
          IN  c.ret =>
                c.content = Join(UnconsumedLines(c))
                            \o (IF EndsWithNL(c.text) THEN <<NL>> ELSE <<>>)
    /\ (runs = 1 /\ before = ScenarioYaml /\ changes = ScenarioYamlRule) =>
          /\ content = <<"replicaCount", ":", SP, "2", NL>>
          /\ modified

-----------------------------------------------------------------------------
(* Properties of the YAML routes *)

RECURSIVE ValuesOfKey(_, _)
\* the values that the key name has anywhere in the document
ValuesOfKey(v, name) ==
    IF IsMap(v)
    THEN UNION { (IF v.items[k][1] = StrV(name) THEN {v.items[k][2]} ELSE {})
                 \cup ValuesOfKey(v.items[k][2], name) : k \in 1..Len(v.items) }
    ELSE IF IsList(v)
    THEN UNION { ValuesOfKey(v.elems[k], name) : k \in 1..Len(v.elems) }
    ELSE {}

IsYaml == ftype \in {"yaml", "yml"}

\* every operation of the rule is a DeleteKey with an expected value
AllConditionalDeletes ==
    /\ changes # <<>>
    /\ \A k \in 1..Len(changes) :
          /\ changes[k].action = "delete_key"
          /\ changes[k].value # NoneV

\* C4, as stated: on either route a DeleteKey with an expected value removes
\* an occurrence of its key only when the matcher confirms a match against
\* the value of that occurrence; so when no value that the key has anywhere
\* in the document matches, the rule leaves the file as it was.
C4_PredicateGating ==
    ( /\ runs = 1 /\ IsYaml /\ AllConditionalDeletes
      /\ safe_load(before).ok
      /\ \A k \in 1..Len(changes) :
            \A v \in ValuesOfKey(safe_load(before).val,
                                 changes[k].path[Len(changes[k].path)]) :
                ~_yaml_value_contains(v, changes[k].value) )
    => (content = before /\ ~modified)

\* C5, as stated: the second application of a rule reports no change and
\* leaves the content of the first application.
C5_Idempotent == runs = 2 => (~modified /\ content = before)

\* the steps that the path resolver is specified to give: a MapKey for each
\* non-empty dotted segment, an ArrayIndex for each bracket index
SpecSteps(path) ==
    LET keys == PartKeys(ReSplit(path, 1, <<>>), 0)
    IN  SelectSeq(keys, LAMBDA k : k # StrV(""))

\* C6, as stated: every bracket index of an update path, 0 included, is an
\* ArrayIndex step in its position, and setting "jobs.build.steps[0].uses"
\* to v on {jobs:{build:{steps:[{}]}}} gives {jobs:{build:{steps:[{uses:v}]}}}.
C6_PathRoundTrip ==
    (runs = 1 /\ IsYaml /\ trace.route = "structural" /\ trace.loaded) =>
        /\ \A k \in 1..Len(trace.steps) :
              changes[k].action = "update_key" =>
                  trace.steps[k].keys = SpecSteps(changes[k].path)
        /\ (before = dump(ScenarioPathDoc) /\ changes # <<>>) =>
              safe_load(content).val =
                  MapV(<<Entry("jobs", MapV(<<Entry("build",
                      MapV(<<Entry("steps",
                          ListV(<<MapV(<<Entry("uses", StrV("v"))>>)>>))>>))>>))>>)

\* the latest application wrote the file
Written ==
    IF trace.route = "text" THEN \E n \in 1..Len(trace.calls) : trace.calls[n].ret
    ELSE trace.written

\* the rule of the text scenario on a text file
IsTextScenario == ftype = "text" /\ changes = ScenarioTextRule

\* C7: with every strategy the file is written only when the operations of
\* the rule changed its content, and changed is reported iff the content
\* after the call differs from the content before it; the Replace rule of
\* the text scenario reports a change on the first run and none on a re-run.
C7_DiffGate ==
    /\ runs >= 1 =>
          /\ Written => content # before
          /\ modified <=> content # before
    /\ (IsTextScenario /\ runs = 1) =>
          /\ modified
          /\ content = <<"@Library('gcp-jenkins-library@", "2.2.6", "')",
                         NL, "pipeline">>
    /\ (IsTextScenario /\ runs = 2) => (~modified /\ content = before)

\* C7, witness: the text scenario was run twice and its first run rewrote
\* the file.
C7_Witness == IsTextScenario /\ runs = 2 /\ content # ScenarioText

\* C7, witness of the other strategies: a structured YAML rule, a text-block
\* rule, a JSON rule and an env rule have each rewritten their file.
C7_WitnessRoutes ==
    runs = 1 /\ modified /\ Written /\ trace.route \in {"structural", "text", "json", "env"}

-----------------------------------------------------------------------------
(* Properties of the env upsert *)

\* the key of an env line: what stands before its first "="
EnvKeyOf(line) ==
    IF Contains(line, "=") THEN RStrip(SplitOn(line, "=")[1]) ELSE <<>>

IsPrefix(a, b) == Len(a) <= Len(b) /\ SubSeq(b, 1, Len(a)) = a

\* the lines of a text whose key is not key but has it as a prefix, or is a
\* prefix of it
KinLines(text, key) ==
    SelectSeq(TextLines(text),
              LAMBDA l : /\ EnvKeyOf(l) # <<>>
                         /\ EnvKeyOf(l) # key
                         /\ (IsPrefix(key, EnvKeyOf(l)) \/ IsPrefix(EnvKeyOf(l), key)))

\* C8, as stated: an update_key for K rewrites no line whose key is another
\* key that has K as a prefix or is a prefix of K; "API_KEY=old" with
\* API_KEY_VERSION=3 gets the new line appended.
C8_ExactKeyToken ==
    /\ ( /\ runs = 1 /\ ftype = "env" /\ changes # <<>>
         /\ \A k \in 1..Len(changes) :
               /\ changes[k].action = "update_key"
               /\ changes[k].path = changes[1].path )
       => KinLines(content, changes[1].path) = KinLines(before, changes[1].path)
    /\ ( /\ runs = 1 /\ ftype = "env"
         /\ before = KeyA \o <<"=", "old">>
         /\ changes = <<UpdateChange(KeyAV, <<"3">>)>> )
       => content = KeyA \o <<"=", "old", NL>> \o KeyAV \o <<"=", "3", NL>>

-----------------------------------------------------------------------------
(* Properties of the routing and of the navigation *)

\* the DeleteKey operations of the rule, in order
DeleteOps == SelectSeq(changes, LAMBDA c : Get(c, "action", "") = "delete_key")

RECURSIVE HitsMismatch(_, _)
\* walking the document along the steps meets a step that does not fit the
\* container it is applied to: an int step on a dict, a str step on a list
\* (a str that is no number, for the str steps of a JSON path), any step on
\* a scalar
HitsMismatch(cur, keys) ==
    IF keys = <<>> THEN FALSE
    ELSE LET key == keys[1]
         IN  IF IsMap(cur)
             THEN IF IsInt(key) THEN TRUE
                  ELSE IF MapHas(cur, key)
                  THEN HitsMismatch(MapGet(cur, key), Tail(keys))
                  ELSE FALSE
             ELSE IF IsList(cur)
             THEN LET idx == IF IsInt(key) THEN key.n
                             ELSE IF key.s \in DigitSyms /\ ftype = "json"
                             THEN IntOf(key.s) ELSE 0 - 1
                  IN  IF idx < 0 THEN TRUE
                      ELSE IF idx < Len(cur.elems)
                      THEN HitsMismatch(cur.elems[idx + 1], Tail(keys))
                      ELSE FALSE
             ELSE TRUE

\* the steps of an operation as tagged values (a JSON path has str steps)
StepKeys(keys) ==
    [k \in 1..Len(keys) |-> IF ftype = "json" THEN StrV(keys[k]) ELSE keys[k]]

\* the document on which the k-th operation of the latest application acted
DataBefore(k) == IF k = 1 THEN trace.data ELSE trace.steps[k - 1].data

\* C10, as stated: when a step of a SetKey or DeleteKey path does not fit
\* the container it is applied to, nothing is raised and the document is
\* left exactly as it was before the operation.
C10_TypeMismatch ==
    (runs = 1 /\ trace.route \in {"structural", "json"} /\ trace.loaded) =>
        \A k \in 1..Len(trace.steps) :
            HitsMismatch(DataBefore(k), StepKeys(trace.steps[k].keys)) =>
                /\ trace.steps[k].st # "raise"
                /\ trace.steps[k].data = DataBefore(k)

-----------------------------------------------------------------------------
(* Properties of the navigation for writing *)

\* the index that a step is on a sequence, -1 when it is none (a JSON path
\* has str steps, of which the numbers are indices)
StepIndex(key) ==
    IF IsInt(key) THEN key.n
    ELSE IF ftype = "json" /\ key.t = "str" /\ key.s \in DigitSyms THEN IntOf(key.s)
    ELSE 0 - 1

RECURSIVE PastEnd(_, _)
\* walking the document along the steps, an intermediate step is an index
\* at or beyond the end of the sequence it is applied to
PastEnd(cur, keys) ==
    IF Len(keys) <= 1 THEN FALSE
    ELSE IF IsMap(cur)
    THEN MapHas(cur, keys[1]) /\ PastEnd(MapGet(cur, keys[1]), Tail(keys))
    ELSE IF IsList(cur) /\ StepIndex(keys[1]) >= 0
    THEN IF StepIndex(keys[1]) >= Len(cur.elems) THEN TRUE
         ELSE PastEnd(cur.elems[StepIndex(keys[1]) + 1], Tail(keys))
    ELSE FALSE

RECURSIVE Padded(_, _, _)
\* new is cur with the sequence of such a step grown to hold the index: its
\* length is the index plus one and the entry of the index is a Mapping
Padded(cur, new, keys) ==
    IF Len(keys) <= 1 THEN TRUE
    ELSE IF IsMap(cur)
    THEN (MapHas(cur, keys[1]) /\ PastEnd(MapGet(cur, keys[1]), Tail(keys))) =>
            /\ IsMap(new) /\ MapHas(new, keys[1])
            /\ Padded(MapGet(cur, keys[1]), MapGet(new, keys[1]), Tail(keys))
    ELSE IF IsList(cur) /\ StepIndex(keys[1]) >= 0
    THEN IF StepIndex(keys[1]) >= Len(cur.elems)
         THEN /\ IsList(new)
              /\ Len(new.elems) = StepIndex(keys[1]) + 1
              /\ IsMap(new.elems[StepIndex(keys[1]) + 1])
         ELSE PastEnd(cur.elems[StepIndex(keys[1]) + 1], Tail(keys)) =>
                 /\ IsList(new) /\ Len(new.elems) = Len(cur.elems)
                 /\ Padded(cur.elems[StepIndex(keys[1]) + 1],
                           new.elems[StepIndex(keys[1]) + 1], Tail(keys))
    ELSE TRUE

\* the k-th operation of the latest application was a SetKey that the
\* navigator walked
IsSetStep(k) ==
    /\ changes[k].action = "update_key"
    /\ trace.steps[k].st # "skip"

\* C11, as stated: when an intermediate index step i of a SetKey path meets a
\* sequence of length n <= i, nothing is raised and the sequence is padded
\* with empty mappings to the length i + 1, for i = n and for i > n alike.
C11_WritePadding ==
    (runs = 1 /\ trace.route \in {"structural", "json"} /\ trace.loaded) =>
        \A k \in 1..Len(trace.steps) :
            (IsSetStep(k) /\ PastEnd(DataBefore(k), StepKeys(trace.steps[k].keys))) =>
                /\ trace.steps[k].st = "ok"
                /\ Padded(DataBefore(k), trace.steps[k].data,
                          StepKeys(trace.steps[k].keys))

RECURSIVE Reach(_, _)
\* the value that the steps lead to in the document, as <<value>>; <<>> when
\* a step is a key that the mapping lacks, an index beyond the sequence or a
\* step that does not fit its container
Reach(cur, keys) ==
    IF keys = <<>> THEN <<cur>>
    ELSE IF IsMap(cur) /\ ~IsInt(keys[1])
    THEN IF MapHas(cur, keys[1]) THEN Reach(MapGet(cur, keys[1]), Tail(keys))
         ELSE <<>>
    ELSE IF /\ IsList(cur) /\ StepIndex(keys[1]) >= 0
            /\ StepIndex(keys[1]) < Len(cur.elems)
    THEN Reach(cur.elems[StepIndex(keys[1]) + 1], Tail(keys))
    ELSE <<>>

\* all steps but the last
Front(keys) == SubSeq(keys, 1, Len(keys) - 1)

\* the final step of SetKey with value on the parent container that the steps
\* before it lead to in the document old, new being the document afterwards
FinalStepSet(old, new, keys, value) ==
    \/ Reach(old, Front(keys)) = <<>>
    \/ /\ IsMap(Reach(old, Front(keys))[1])
       /\ ~IsInt(keys[Len(keys)])
       /\ Reach(new, keys) = <<value>>
    \/ /\ IsMap(Reach(old, Front(keys))[1])
       /\ IsInt(keys[Len(keys)])
    \/ /\ IsList(Reach(old, Front(keys))[1])
       /\ StepIndex(keys[Len(keys)]) < 0
    \/ /\ IsList(Reach(old, Front(keys))[1])
       /\ StepIndex(keys[Len(keys)]) >= 0
       /\ StepIndex(keys[Len(keys)]) < Len(Reach(old, Front(keys))[1].elems)
       /\ Reach(new, keys) = <<value>>
       /\ Len(Reach(new, Front(keys))[1].elems) = Len(Reach(old, Front(keys))[1].elems)
    \/ /\ IsList(Reach(old, Front(keys))[1])
       /\ StepIndex(keys[Len(keys)]) = Len(Reach(old, Front(keys))[1].elems)
       /\ Reach(new, Front(keys)) =
             <<ListV(Append(Reach(old, Front(keys))[1].elems, value))>>
    \/ /\ IsList(Reach(old, Front(keys))[1])
       /\ StepIndex(keys[Len(keys)]) > Len(Reach(old, Front(keys))[1].elems)
       /\ new = old
    \/ Reach(old, Front(keys))[1].t \notin {"map", "list"}

\* C12, as stated: on the parent container the final step of SetKey
\* overwrites the value of the key or of the index, creating the key when it
\* is absent; an index equal to the length of the sequence appends the value
\* and an index beyond the length leaves the sequence as it was.
C12_SetFinalStep ==
    (runs = 1 /\ trace.route \in {"structural", "json"} /\ trace.loaded) =>
        \A k \in 1..Len(trace.steps) :
            IsSetStep(k) /\ trace.steps[k].keys # <<>> =>
                FinalStepSet(DataBefore(k), trace.steps[k].data,
                             StepKeys(trace.steps[k].keys), changes[k].value)

-----------------------------------------------------------------------------
(* Properties of the structural delete *)

RECURSIVE Without(_, _)
\* the document without the key or the entry that the steps lead to
Without(cur, keys) ==
    IF IsMap(cur)
    THEN IF Len(keys) = 1
         THEN MapV(SelectSeq(cur.items, LAMBDA e : e[1] # keys[1]))
         ELSE MapV([i \in 1..Len(cur.items) |->
                  IF cur.items[i][1] = keys[1]
                  THEN <<keys[1], Without(cur.items[i][2], Tail(keys))>>
                  ELSE cur.items[i]])
    ELSE IF Len(keys) = 1
         THEN ListV(SubSeq(cur.elems, 1, StepIndex(keys[1]))
                    \o SubSeq(cur.elems, StepIndex(keys[1]) + 2, Len(cur.elems)))
         ELSE ListV([i \in 1..Len(cur.elems) |->
                  IF i = StepIndex(keys[1]) + 1
                  THEN Without(cur.elems[i], Tail(keys))
                  ELSE cur.elems[i]])

\* the document after a DeleteKey along the steps: the final key or index
\* is removed when the steps lead to a value and either no value is
\* expected or the matcher confirms the value; the document is as before
\* otherwise
DeleteExpected(old, steps, value) ==
    IF /\ steps # <<>>
       /\ Reach(old, steps) # <<>>
       /\ (value = NoneV \/ _yaml_value_contains(Reach(old, steps)[1], value))
    THEN Without(old, steps)
    ELSE old

IsStructuralDelete(k) == changes[k].action = "delete_key"

\* C13, as stated: a structural DeleteKey removes the final key or index of
\* its path iff navigation reaches the parent, the final key or index exists
\* there and either no value is expected or the matcher confirms the current
\* value; otherwise the parsed document is left as it was, and a rule whose
\* operations all leave the document as it was does not rewrite the file.
C13_DeleteOnMiss ==
    (runs = 1 /\ IsYaml /\ trace.route = "structural" /\ trace.loaded) =>
        /\ \A k \in 1..Len(trace.steps) :
              IsStructuralDelete(k) =>
                  trace.steps[k].data =
                      DeleteExpected(DataBefore(k), SpecSteps(changes[k].path),
                                     changes[k].value)
        /\ ( /\ Len(trace.steps) = Len(changes)
             /\ \A k \in 1..Len(changes) :
                   /\ IsStructuralDelete(k)
                   /\ trace.steps[k].data = DataBefore(k) )
           => (content = before /\ ~modified)

-----------------------------------------------------------------------------
(* Properties of the predicate matcher *)

\* the expected pattern is a one-element sequence whose element is a
\* Mapping containing the key "key"
ListOfMapsPattern(p) ==
    /\ IsList(p)
    /\ Len(p.elems) = 1
    /\ IsMap(p.elems[1])
    /\ \E i \in 1..Len(p.elems[1].items) : p.elems[1].items[i][1] = StrV("key")

\* the "key" field of a Mapping that has one
KeyField(m) ==
    m.items[CHOOSE i \in 1..Len(m.items) : m.items[i][1] = StrV("key")][2]

\* cur is a sequence with a Mapping element whose "key" field equals the
\* "key" field of the element of the pattern
HasElementWithKey(cur, p) ==
    /\ IsList(cur)
    /\ \E k \in 1..Len(cur.elems) :
          /\ IsMap(cur.elems[k])
          /\ \E i \in 1..Len(cur.elems[k].items) :
                /\ cur.elems[k].items[i][1] = StrV("key")
                /\ cur.elems[k].items[i][2] = KeyField(p.elems[1])

\* C14, as stated: for a one-element sequence pattern whose element is a
\* Mapping with the key "key", the matcher returns true iff the current
\* value is a sequence with a Mapping element whose "key" field equals the
\* "key" field of the pattern, whatever the other fields are; it returns
\* false for every other current value.
C14_ListOfMapsRule ==
    (matched # <<>> /\ ListOfMapsPattern(match_pattern)) =>
        (matched[1] <=> HasElementWithKey(match_current, match_pattern))

\* the expected pattern is a Mapping containing the marker key
MarkerPattern(p) ==
    /\ IsMap(p)
    /\ \E i \in 1..Len(p.items) : p.items[i][1] = StrV("nodeAffinity")

\* the keys of a Mapping, as a set
KeySet(m) == {m.items[i][1] : i \in 1..Len(m.items)}

\* the value of a key of a Mapping
ValueAt(m, key) == m.items[CHOOSE i \in 1..Len(m.items) : m.items[i][1] = key][2]

RECURSIVE StructEq(_, _)
\* structural equality: scalars of the same type and value, sequences with
\* equal elements in the same order, Mappings with the same keys and equal
\* values, in whatever order the keys are
StructEq(a, b) ==
    IF a.t # b.t THEN FALSE
    ELSE IF IsMap(a)
    THEN /\ KeySet(a) = KeySet(b)
         /\ \A key \in KeySet(a) : StructEq(ValueAt(a, key), ValueAt(b, key))
    ELSE IF IsList(a)
    THEN /\ Len(a.elems) = Len(b.elems)
         /\ \A k \in 1..Len(a.elems) : StructEq(a.elems[k], b.elems[k])
    ELSE a = b

\* C15, as stated: when the list-of-maps rule does not apply and the pattern
\* is a Mapping with the marker key "nodeAffinity", the matcher returns true
\* iff the current value is a Mapping with that key, whatever its value;
\* when neither rule applies the result is the structural equality of
\* current value and pattern, independent of the order of mapping keys.
C15_MarkerRuleAndEquality ==
    (matched # <<>> /\ ~ListOfMapsPattern(match_pattern)) =>
        IF MarkerPattern(match_pattern)
        THEN matched[1] <=> (IsMap(match_current) /\ MarkerPattern(match_current))
        ELSE matched[1] <=> StructEq(match_current, match_pattern)

-----------------------------------------------------------------------------
(* Properties of the dispatcher on a rule list *)

\* the loop has gone through the whole rule list
AllAttempted == rule_index = Len(rules) + 1

\* a pass on a rule that fails leaves the files, changes_made and
\* modified_files as they were
FailedPassChangesNothing ==
    (rule_index' = rule_index + 1 /\ raised') =>
        /\ files' = files
        /\ modified_files' = modified_files
        /\ changes_made' = changes_made

\* the invocation ends by returning, after a pass on every rule of the list
EndsByReturn ==
    /\ ~propagated
    /\ returned => AllAttempted

\* C16: no exception leaves apply_file_changes; a rule whose application
\* fails changes no file and is not reported as modified; and the
\* invocation returns only after a pass on every rule of the list, the
\* rules after a failed one included.
C16_Resilience == []EndsByReturn /\ [][FailedPassChangesNothing]_vars

\* a rule has failed and the next rule of the list has modified its file
C16_Witness ==
    /\ returned
    /\ Len(rules) = 2
    /\ rules[1].file = YamlFile
    /\ rules[1].changes[1].path = <<"K", "[", "3", "]", ".", "J">>
    /\ files[YamlFile] = <<dump(MapV(<<Entry("K", ListV(<<EmptyMap>>))>>))>>
    /\ rules[2].file = JsonFile
    /\ modified
    /\ modified_files = <<JsonFile>>

\* the rule of the latest pass of the loop, and whether its file exists
LatestRule == rules[rule_index - 1]

LatestApplied == rule_index > 1 /\ files[LatestRule.file] # <<>>

\* the text cannot be parsed as a document of the type of the rule
IsMalformed(text, file_type) ==
    IF file_type = "json" THEN text.layout = "malformed"
    ELSE ~safe_load(text).ok

\* C17, as stated: a rule on a JSON or YAML file that cannot be parsed
\* leaves the file as it was and reports it as unmodified, on every route,
\* the YAML text route with or without an expected value included, and the
\* loop goes on with the rules of the other files.
C17_ParseError ==
    (LatestApplied /\ IsMalformed(before, ftype)) =>
        /\ content = before
        /\ files[LatestRule.file] = <<before>>
        /\ ~modified
        /\ LatestRule.file \notin Range(modified_files)
        /\ ~propagated

-----------------------------------------------------------------------------
(* Properties of the operations of one rule *)

\* the document after the last operation that the latest application applied
FinalData ==
    IF trace.steps = <<>> THEN trace.data ELSE trace.steps[Len(trace.steps)].data

\* C18, as stated: on a parsed JSON or YAML document an operation whose path
\* cannot be applied is skipped alone: nothing is raised, every operation of
\* the rule is gone through, and the effect of the operations that were
\* applied is written to the file.
C18_PathErrorIsolation ==
    (runs = 1 /\ trace.route \in {"structural", "json"} /\ trace.loaded) =>
        /\ ~raised
        /\ Len(trace.steps) = Len(changes)
        /\ \A k \in 1..Len(trace.steps) : trace.steps[k].st # "raise"
        /\ ~SameDump(FinalData, trace.data) => (Written /\ modified)

\* the path of the k-th operation is empty or resolves to no step
EmptyPath(k) == SpecSteps(changes[k].path) = <<>>

\* C19, as stated: a SetKey or DeleteKey whose path is empty or resolves to
\* no step raises nothing and leaves the document as it was, in JSON and on
\* the structured YAML route, and removes nothing on the YAML text route.
C19_EmptyPathNoOp ==
    /\ (runs = 1 /\ trace.route \in {"structural", "json"} /\ trace.loaded) =>
          \A k \in 1..Len(trace.steps) :
              EmptyPath(k) =>
                  /\ trace.steps[k].st # "raise"
                  /\ trace.steps[k].data = DataBefore(k)
    /\ (runs = 1 /\ trace.route = "text") =>
          \A n \in 1..Len(trace.calls) :
              trace.calls[n].key = <<>> => ~trace.calls[n].ret

\* the text after a rule of the one operation op on the route that the
\* latest application took
AloneOn(text, op) ==
    IF trace.route = "structural"
    THEN StructuredRoute(text, <<op>>).content
    ELSE ApplyRule(text, ftype, <<op>>).content

RECURSIVE OneByOne(_, _)
\* the text after the operations have been applied one at a time, in list
\* order, each on the text that the one before left
OneByOne(text, chs) ==
    IF chs = <<>> THEN text
    ELSE OneByOne(AloneOn(text, Head(chs)), Tail(chs))

\* C20, as stated: the operations of a rule are applied in their listed
\* order, each on the result of the earlier ones, so that the content after
\* the rule is the sequential composition of its operations in list order,
\* on the text, json and env strategies and on both yaml routes.
C20_SequentialComposition ==
    runs = 1 => content = OneByOne(before, changes)

-----------------------------------------------------------------------------
(* Properties of the result of the dispatcher *)

\* the file of the rule at rule_index is missing
TargetMissing == files[rules[rule_index].file] = <<>>

\* a pass of the loop appends the file of its rule to modified_files when
\* the file exists and the strategy returned changed, and leaves the list
\* as it was otherwise; a pass on a missing file changes no file and raises
\* nothing
PassAccumulates ==
    rule_index' = rule_index + 1 =>
        /\ modified_files' =
              IF ~TargetMissing /\ modified'
              THEN Append(modified_files, rules[rule_index].file)
              ELSE modified_files
        /\ TargetMissing => (files' = files /\ ~raised' /\ ~propagated')

\* changes_made is true iff modified_files is not empty
MadeIffListed == changes_made <=> modified_files # <<>>

\* the result is returned after the pass on the last rule
ReturnsAfterLast == returned => (rule_index = Len(rules) + 1 /\ ~propagated)

\* C21: changes_made is true iff modified_files is not empty; the list holds
\* the files of the rules whose strategy returned changed, in rule order; a
\* rule whose file is missing adds nothing, raises nothing and the loop goes
\* on to the end of the list.
C21_DispatcherResult ==
    /\ [](MadeIffListed /\ ReturnsAfterLast)
    /\ [][PassAccumulates]_vars

\* a rule on a missing file was followed by a rule that modified its file
C21_Witness ==
    /\ returned
    /\ Len(rules) = 2
    /\ rules[1].file = YamlFile
    /\ files[YamlFile] = <<>>
    /\ rules[2].file = JsonFile
    /\ changes_made
    /\ modified_files = <<JsonFile>>

-----------------------------------------------------------------------------
(* Properties of process_repository and main *)

\* the steps of this repository that were really executed
Executed(op) == \E i \in 1..Len(log) : log[i].op = op /\ log[i].executed

\* no commit, push or pull-request creation was executed
NothingPublished ==
    ~Executed("commit") /\ ~Executed("push") /\ ~Executed("pr_create")

\* a step of the changes of a dry run leaves every file as it was
DryRunKeepsFiles == (dry_run /\ pc = "changes") => files' = files

\* C22: when process_repository runs with dry_run=True, the change rules
\* write no file of the working copy, and no commit, push or pull-request
\* creation is executed, whether or not the clone directory already holds
\* the repository.
C22_DryRunNoChanges ==
    /\ [](dry_run => NothingPublished)
    /\ [][DryRunKeepsFiles]_vars

\* every value create_pull_request has returned is a pair
ReturnsPair == pr_return # <<>> => pr_return[1].is_pair

\* C23: create_pull_request returns a pair (PR URL or None, is_existing_pr)
\* on every path: with dry_run=True, with an existing pull request, after a
\* successful creation and after a failed one; the caller can always unpack
\* its result into two values.
C23_ReturnsPair ==
    /\ ReturnsPair
    /\ result.error # "cannot unpack non-iterable NoneType object"

\* the step op was executed and succeeded before position i of the log
SucceededBefore(op, i) == \E j \in 1..(i - 1) : log[j] = Step(op, TRUE, TRUE)

\* every executed step op comes after a successful step prior
OnlyAfter(op, prior) ==
    \A i \in 1..Len(log) :
        (log[i].op = op /\ log[i].executed) => SucceededBefore(prior, i)

\* create_pull_request is called only after the push succeeded
PrAfterPush == pr_return # <<>> => SucceededBefore("push", Len(log) + 1)

\* with an open pull request reported and update_existing_pr false nothing
\* is committed, pushed or created, and the result is skipped with the URL
ExistingPrSkips ==
    (existing_pr_url # "None" /\ ~update_existing_pr) =>
        /\ NothingPublished
        /\ pr_return = <<>>
        /\ pc = "return" =>
              /\ result.status = "skipped"
              /\ result.skipped
              /\ result.pr_url = existing_pr_url

\* success is reported only after every step succeeded
SuccessAfterAll ==
    result.status = "success" =>
        /\ clone_exists
        /\ SucceededBefore("branch", Len(log) + 1)
        /\ returned /\ changes_made
        /\ OnlyAfter("commit", "branch")
        /\ SucceededBefore("commit", Len(log) + 1)
        /\ SucceededBefore("push", Len(log) + 1)
        /\ pr_return # <<>> /\ pr_return[1].url = result.pr_url
        /\ result.pr_url # "None"

\* C27: in process_repository without dry_run, a push is attempted only
\* after a commit succeeded and the pull-request creation only after the
\* push succeeded; when an open pull request is reported for the branch and
\* update_existing_pr is false, no commit, push or creation is attempted and
\* the result is 'skipped' with the URL of that pull request; 'success' is
\* returned only after clone, branch, changes, commit, push and the
\* pull-request step all succeeded.
C27_WorkflowOrdering ==
    ~dry_run =>
        /\ OnlyAfter("push", "commit")
        /\ OnlyAfter("pr_create", "push")
        /\ PrAfterPush
        /\ ExistingPrSkips
        /\ SuccessAfterAll

C27_Witness ==
    /\ ~dry_run
    /\ pc = "return"
    /\ result.status = "success"
    /\ Executed("pr_create")
    /\ repo_index = 2
    /\ results = <<"skipped">>

\* the result process_repository returns has a final status, and an error
\* when the status is failed
FinalResult ==
    /\ result.status \in {"success", "skipped", "failed"}
    /\ result.status = "failed" => result.error # "None"

\* main has collected one status for each repository before the current one
CollectsEach == Len(results) = repo_index - 1

\* main exits after the last repository, with 1 exactly when one has failed
ExitsAfterAll ==
    exit_code # <<>> =>
        /\ Len(results) = repos
        /\ exit_code[1] \in {0, 1}
        /\ exit_code[1] = 1 <=> \E i \in 1..Len(results) : results[i] = "failed"

\* C28: process_repository never propagates an exception and always returns
\* a result whose status is 'success', 'skipped' or 'failed', never the
\* initial 'unknown', with error set whenever the status is 'failed'; main
\* processes every selected repository even after earlier ones failed, and
\* exits with code 1 iff at least one repository ended with status 'failed'.
C28_Totality ==
    /\ pc # "raised"
    /\ pc = "return" => FinalResult
    /\ \A i \in 1..Len(results) : results[i] \in {"success", "skipped", "failed"}
    /\ CollectsEach
    /\ ExitsAfterAll

C28_Witness ==
    /\ pc = "exit"
    /\ repos = 2
    /\ results = <<"failed", "success">>
    /\ exit_code = <<1>>

-----------------------------------------------------------------------------
(* Properties of the inline-value rule of the text-block editor *)

\* the content after the colon of the key line, as the editor reads it
AfterColon(line, key_name) == Strip(KeyMatch(line, key_name).rest)

\* the key line has an inline value: content after the colon that is not a
\* comment
HasInlineValue(line, key_name) ==
    /\ AfterColon(line, key_name) # <<>>
    /\ AfterColon(line, key_name)[1] # "#"

\* the line at index j of call c is an ordinary line of the scan: kept,
\* unless it is itself a key line
OrdinaryLine(c, j) ==
    IF KeyMatch(c.lines[j], c.key).m
    THEN \E p \in 1..Len(c.occ) : c.occ[p].at = j
    ELSE j \in Range(c.kept)

\* the line at index j belongs to the value block of the key at indentation
\* indent: blank, indented deeper, or a list item at the indentation of the key
BlockLine(c, j, indent) ==
    \/ IsBlank(c.lines[j])
    \/ IndentOf(c.lines[j]) > indent
    \/ IndentOf(c.lines[j]) = indent /\ IsListItem(c.lines[j])

\* the occurrence o of call c follows the inline-value rule
InlineRule(c, o) ==
    IF HasInlineValue(c.lines[o.at], c.key)
    THEN /\ o.end = o.at + 1
         /\ o.at + 1 <= Len(c.lines) => OrdinaryLine(c, o.at + 1)
    ELSE /\ \A j \in (o.at + 1)..(o.end - 1) :
               j \notin Range(c.kept) /\ BlockLine(c, j, o.indent)
         /\ o.end <= Len(c.lines) =>
               ~BlockLine(c, o.end, o.indent) /\ OrdinaryLine(c, o.end)

\* C24: when the matched key line has non-empty content after the colon
\* that does not start with '#', exactly that one line is deleted and the
\* line after it is scanned as an ordinary line, kept unless it is itself a
\* key line of K; when the content after the colon is empty or starts with
\* '#', the value is a block and the following lines are consumed by the
\* block rules.
C24_InlineValueRule ==
    \A k \in 1..Len(Calls) : \A p \in 1..Len(Calls[k].occ) :
        /\ Calls[k].occ[p].at \notin Range(Calls[k].kept)
        /\ InlineRule(Calls[k], Calls[k].occ[p])

\* an inline value followed by a deeper line that is kept, and a key line
\* whose content after the colon is a comment
C24_Witness ==
    \E k \in 1..Len(Calls) : \E p, q \in 1..Len(Calls[k].occ) :
        /\ HasInlineValue(Calls[k].lines[Calls[k].occ[p].at], Calls[k].key)
        /\ Calls[k].occ[p].at + 1 \in Range(Calls[k].kept)
        /\ IndentOf(Calls[k].lines[Calls[k].occ[p].at + 1]) > Calls[k].occ[p].indent
        /\ ~IsBlank(Calls[k].lines[Calls[k].occ[p].at + 1])
        /\ AfterColon(Calls[k].lines[Calls[k].occ[q].at], Calls[k].key) = <<"#">>

-----------------------------------------------------------------------------
(* Properties of one call of the text-block editor *)

\* the lines of the text that are key lines of the key
KeyLines(text_lines, key_name) ==
    { j \in 1..Len(text_lines) : KeyMatch(text_lines[j], key_name).m }

\* a second call of the editor, on what call c wrote
SecondCall(c) == delete_yaml_key_preserve_formatting(c.content, c.key, c.expected)

\* C30: one call of delete_yaml_key_preserve_formatting that returns true
\* removes every line of the file that matches the key pattern for K, at
\* every indentation, so the written output has no key line of K, and a
\* second call with the same key on the output returns false and leaves the
\* file as it is.
C30_SinglePassComplete ==
    \A k \in 1..Len(Calls) :
        Calls[k].ret =>
            /\ KeyLines(Calls[k].lines, Calls[k].key) \cap Range(Calls[k].kept) = {}
            /\ KeyLines(Split(Calls[k].content), Calls[k].key) = {}
            /\ ~SecondCall(Calls[k]).ret
            /\ SecondCall(Calls[k]).content = Calls[k].content

\* a call that removed key lines of K at two indentations
C30_Witness ==
    \E k \in 1..Len(Calls) : \E p, q \in 1..Len(Calls[k].occ) :
        /\ Calls[k].ret
        /\ Calls[k].occ[p].indent = 0
        /\ Calls[k].occ[q].indent = 1
        /\ Calls[k].kept # <<>>

-----------------------------------------------------------------------------
(* Properties of one update_key on an env file *)

\* the rule is one update_key on an env file, applied once
OneEnvUpdate ==
    /\ runs = 1
    /\ ftype = "env"
    /\ Len(changes) = 1
    /\ changes[1].action = "update_key"

\* the line is key, optional whitespace and "="
EnvLineMatches(line, key) ==
    /\ HasAt(line, 1, key)
    /\ SkipSpace(line, 1 + Len(key)) <= Len(line)
    /\ line[SkipSpace(line, 1 + Len(key))] = "="

\* the indices of the lines that match
EnvMatches(ls, key) == { j \in 1..Len(ls) : EnvLineMatches(ls[j], key) }

\* the lines with the first matching one rewritten to "key=value"
RewriteFirst(ls, key, value) ==
    [j \in 1..Len(ls) |->
        IF j \in EnvMatches(ls, key) /\ \A h \in EnvMatches(ls, key) : j <= h
        THEN key \o <<"=">> \o value
        ELSE ls[j]]

\* the text with "key=value" as a new last line
AppendLine(text, key, value) ==
    (IF text # <<>> /\ ~EndsWithNL(text) THEN text \o <<NL>> ELSE text)
    \o key \o <<"=">> \o value \o <<NL>>

\* C25: an update_key for key K on an env file rewrites in place the first
\* line that is K, optional whitespace and '=' to 'K=value' and rewrites no
\* other line; when no line matches it appends 'K=value' as a new last
\* line, after a newline when the non-empty content does not end with one.
C25_EnvUpsert ==
    OneEnvUpdate =>
        content =
            IF EnvMatches(Split(before), changes[1].path) # {}
            THEN Join(RewriteFirst(Split(before), changes[1].path, changes[1].value))
            ELSE AppendLine(before, changes[1].path, changes[1].value)

\* the lines whose key is not the key of the update
OtherLines(text, key) ==
    SelectSeq(TextLines(text), LAMBDA l : EnvKeyOf(l) # key)

\* C29: for every env file and every update_key for key K, every line whose
\* key is not K is present, unchanged and in the same relative order after
\* the operation, also the line that directly follows a 'K=' line whose
\* value is empty; the number of lines of the file never decreases.
C29_EnvFrame ==
    OneEnvUpdate =>
        /\ OtherLines(content, changes[1].path) = OtherLines(before, changes[1].path)
        /\ Len(TextLines(content)) >= Len(TextLines(before))

-----------------------------------------------------------------------------
(* Properties of the loop of apply_values_yaml_changes *)

\* a pass that reports a removal leaves fewer lines
PassShrinks ==
    block_removed' =>
        Len(TextLines(block_content')) < Len(TextLines(block_content))

\* the pass after a pass that reported a removal reports none
SecondPassEnds ==
    /\ block_passes <= 2
    /\ block_passes = 2 => (~block_removed /\ block_done /\ block_content = block_before)
    /\ (block_passes = 1 /\ ~block_removed) => block_done

\* C26: the loop of apply_values_yaml_changes that calls
\* remove_yaml_block_v2 for one key name until it reports no match
\* terminates for every text: every pass that reports a removal strictly
\* decreases the number of lines, and after one pass that reports a removal
\* the next pass reports no match.
C26_LoopTerminates ==
    /\ []SecondPassEnds
    /\ [][PassShrinks]_vars

C26_Witness ==
    /\ block_passes = 2
    /\ block_done
    /\ block_content # <<>>
    /\ Len(TextLines(block_content)) = 1

====
